---------------------------- MODULE Spec2Model ----------------------------
(***************************************************************************)
(* Board persistence and reconciliation of the sticky-notes plugin:        *)
(* WhiteboardFileManager (listBoards, createBoard, deleteBoard, loadBoard, *)
(* saveBoard, saveNote, parseNoteFile, constructFileContent),              *)
(* BoardConfigManager, LegacyMigrationManager and the two views that call  *)
(* deleteBoard.                                                            *)
(*                                                                         *)
(* Conventions.  A JavaScript string is a sequence of one-character        *)
(* strings (an enumeration word such as "yellow" is kept as one element).  *)
(* A JavaScript number is an integer count of tenths (10.6 is 106).  An    *)
(* optional field is a sequence of length 0 (undefined) or 1.  A path is   *)
(* the sequence of its segment names, the empty path being "".             *)
(***************************************************************************)
EXTENDS Integers, Sequences, FiniteSets, TLC

VARIABLES
    vault,          \* path -> [kind, text]: the files and folders of the vault
    metadataCache,  \* file path -> parsed header, or NoCache
    trash,          \* paths moved to the recoverable trash
    settings,       \* plugin settings: boards (path -> config), migratedFiles
    notes,          \* the note list handed to saveBoard (objects are mutated)
    save,           \* the running saveBoard invocation
    io,             \* the write of each note: pending operation and result
    faults,         \* file operations that the host may still reject
    loaded,         \* what loadBoard returned after the save
    codec,          \* encode/decode of one note record
    mig,            \* the running checkAndMigrate pass
    view,           \* the views: board list, current board, delete requests
    calls,          \* invocations of the manager beside the running saveBoard
    before          \* history: the vault, the index and the note list at the call

vars == <<vault, metadataCache, trash, settings, notes, save, io, faults,
          loaded, codec, mig, view, calls, before>>

----------------------------------------------------------------------------
(* Strings and numbers *)

Some(v) == <<v>>
None == <<>>

Abs(n) == IF n < 0 THEN -n ELSE n

\* Math.round on a number held in tenths: the nearest integer, halves up.
MathRound(t) == 10 * ((t + 5) \div 10)

DigitChars == <<"0", "1", "2", "3", "4", "5", "6", "7", "8", "9">>

Digit(d) == DigitChars[d + 1]

IsDigit(c) == \E d \in 0..9 : Digit(d) = c

DigitValue(c) == CHOOSE d \in 0..9 : Digit(d) = c

RECURSIVE IntDigits(_)
IntDigits(n) == IF n < 10 THEN <<Digit(n)>> ELSE IntDigits(n \div 10) \o <<Digit(n % 10)>>

\* `${n}` for a number held in tenths.
NumText(t) ==
    LET a == Abs(t)
    IN  (IF t < 0 THEN <<"-">> ELSE <<>>)
        \o IntDigits(a \div 10)
        \o (IF a % 10 = 0 THEN <<>> ELSE <<".", Digit(a % 10)>>)

RECURSIVE DigitsValue(_)
DigitsValue(cs) ==
    IF cs = <<>> THEN 0 ELSE 10 * DigitsValue(SubSeq(cs, 1, Len(cs) - 1)) + DigitValue(cs[Len(cs)])

AllDigits(cs) == cs # <<>> /\ \A i \in 1..Len(cs) : IsDigit(cs[i])

\* The unsigned part of a YAML number: digits, or digits "." one digit.
IsUnsignedNumber(cs) ==
    \/ AllDigits(cs)
    \/ /\ Len(cs) >= 3
       /\ cs[Len(cs) - 1] = "."
       /\ IsDigit(cs[Len(cs)])
       /\ AllDigits(SubSeq(cs, 1, Len(cs) - 2))

UnsignedValue(cs) ==
    IF AllDigits(cs) THEN 10 * DigitsValue(cs)
    ELSE 10 * DigitsValue(SubSeq(cs, 1, Len(cs) - 2)) + DigitValue(cs[Len(cs)])

IsNumberText(cs) ==
    IF cs # <<>> /\ Head(cs) = "-" THEN IsUnsignedNumber(Tail(cs)) ELSE IsUnsignedNumber(cs)

NumberValue(cs) ==
    IF Head(cs) = "-" THEN -UnsignedValue(Tail(cs)) ELSE UnsignedValue(cs)

IsSpace(c) == c \in {" ", "\n", "\t"}

RECURSIVE TrimStart(_)
TrimStart(s) == IF s # <<>> /\ IsSpace(Head(s)) THEN TrimStart(Tail(s)) ELSE s

RECURSIVE TrimEnd(_)
TrimEnd(s) ==
    IF s # <<>> /\ IsSpace(s[Len(s)]) THEN TrimEnd(SubSeq(s, 1, Len(s) - 1)) ELSE s

\* String.prototype.trim
Trim(s) == TrimEnd(TrimStart(s))

\* String(id).replace(/"/g, '\\"')
RECURSIVE EscapeQuotes(_)
EscapeQuotes(s) ==
    IF s = <<>> THEN <<>>
    ELSE (IF Head(s) = "\"" THEN <<"\\", "\"">> ELSE <<Head(s)>>) \o EscapeQuotes(Tail(s))

----------------------------------------------------------------------------
(* The file text and the host's view of its header *)

\* A note file's text: "---", the header lines "key: value", "---", and the
\* text that follows the closing delimiter line.
Line(k, v) == [k |-> k, v |-> v]

PlainText(body) == [hasFm |-> FALSE, fm |-> <<>>, rest |-> body]

\* A YAML double-quoted scalar, read from the character after the opening quote.
RECURSIVE DoubleQuoted(_)
DoubleQuoted(cs) ==
    IF cs = <<>> THEN [ok |-> FALSE, s |-> <<>>]
    ELSE IF Head(cs) = "\"" THEN [ok |-> Tail(cs) = <<>>, s |-> <<>>]
    ELSE IF Head(cs) = "\\"
         THEN IF Len(cs) >= 2 /\ cs[2] \in {"\"", "\\"}
              THEN LET r == DoubleQuoted(SubSeq(cs, 3, Len(cs)))
                   IN  [ok |-> r.ok, s |-> <<cs[2]>> \o r.s]
              ELSE [ok |-> FALSE, s |-> <<>>]
         ELSE LET r == DoubleQuoted(Tail(cs))
              IN  [ok |-> r.ok, s |-> <<Head(cs)>> \o r.s]

IsQuoted(v) == v # <<>> /\ Head(v) = "\""

\* The value the host's YAML parser gives a scalar.
YamlValue(v) ==
    IF IsQuoted(v) THEN DoubleQuoted(Tail(v)).s
    ELSE IF IsNumberText(v) THEN NumberValue(v)
    ELSE v

YamlOk(lines) ==
    \A i \in 1..Len(lines) : IsQuoted(lines[i].v) => DoubleQuoted(Tail(lines[i].v)).ok

\* The header as the metadata index holds it: key -> value, for the keys that
\* have a value; None when the text has no header or the header does not parse.
ParseFrontmatter(text) ==
    IF ~text.hasFm \/ ~YamlOk(text.fm) THEN None
    ELSE LET idx == {i \in 1..Len(text.fm) : text.fm[i].v # <<>>}
             keys == {text.fm[i].k : i \in idx}
             last(k) == CHOOSE i \in idx : text.fm[i].k = k /\ \A j \in idx : text.fm[j].k = k => j <= i
         IN  Some([k \in keys |-> YamlValue(text.fm[last(k)].v)])

StickyNoteType == <<"sticky-note">>

\* cache?.frontmatter?.type === 'sticky-note'
HasMarker(cache) == cache # None /\ "type" \in DOMAIN cache[1] /\ cache[1]["type"] = StickyNoteType

----------------------------------------------------------------------------
(* Note serializer *)

constructFileContent(note) ==
    LET safeId == EscapeQuotes(note.id)
    IN  [hasFm |-> TRUE,
         fm |-> << Line("type", StickyNoteType),
                   Line("id", <<"\"">> \o safeId \o <<"\"">>),
                   Line("x", NumText(MathRound(note.x))),
                   Line("y", NumText(MathRound(note.y))),
                   Line("color", note.color),
                   Line("size", note.size),
                   Line("shape", note.shape),
                   Line("style", note.style),
                   Line("bgStyle", note.bgStyle),
                   Line("rotation", NumText(note.rotation)),
                   Line("pinType", note.pinType),
                   Line("pinPos", note.pinPos) >>
                \o (IF note.originalRotation # None
                    THEN <<Line("originalRotation", NumText(note.originalRotation[1]))>>
                    ELSE <<>>),
         rest |-> <<"\n">> \o note.content]

\* frontmatter.k || d, for a numeric field
FmNum(fm, k, d) == IF k \in DOMAIN fm /\ fm[k] # 0 THEN fm[k] ELSE d

\* Variant: a field the header lacks is read as the empty string.
FmStrNoDefault(fm, k, d) == IF k \in DOMAIN fm THEN fm[k] ELSE <<>>

\* frontmatter.k || d, for a string field
FmStr(fm, k, d) == IF k \in DOMAIN fm /\ fm[k] # <<>> THEN fm[k] ELSE d

\* content.replace(/^---\n[\s\S]*?\n---\n?/, '').trim()
BodyContent(text) == Trim(text.rest)

Extension(name) ==
    IF \E i \in 1..Len(name) : name[i] = "."
    THEN LET i == CHOOSE j \in 1..Len(name) : name[j] = "." /\ \A m \in (j + 1)..Len(name) : name[m] # "."
         IN  SubSeq(name, i + 1, Len(name))
    ELSE <<>>

Basename(name) ==
    IF \E i \in 1..Len(name) : name[i] = "."
    THEN LET i == CHOOSE j \in 1..Len(name) : name[j] = "." /\ \A m \in (j + 1)..Len(name) : name[m] # "."
         IN  SubSeq(name, 1, i - 1)
    ELSE name

FileName(path) == path[Len(path)]

\* parseNoteFile: None for a file the index does not mark as a sticky note.
parseNoteFile(path, cache, text) ==
    IF HasMarker(cache)
    THEN LET frontmatter == cache[1]
         IN  Some([id |-> FmStr(frontmatter, "id", Basename(FileName(path))),
                   x |-> FmNum(frontmatter, "x", 0),
                   y |-> FmNum(frontmatter, "y", 0),
                   color |-> FmStr(frontmatter, "color", <<"yellow">>),
                   size |-> FmStr(frontmatter, "size", <<"m">>),
                   shape |-> FmStr(frontmatter, "shape", <<"square">>),
                   style |-> FmStr(frontmatter, "style", <<"realistic">>),
                   bgStyle |-> FmStr(frontmatter, "bgStyle", <<"solid">>),
                   bgImage |-> None,
                   rotation |-> FmNum(frontmatter, "rotation", 0),
                   pinType |-> FmStr(frontmatter, "pinType", <<"none">>),
                   pinPos |-> FmStr(frontmatter, "pinPos", <<"center">>),
                   type |-> StickyNoteType,
                   content |-> BodyContent(text),
                   filepath |-> path,
                   originalRotation |-> IF "originalRotation" \in DOMAIN frontmatter
                                        THEN Some(frontmatter["originalRotation"])
                                        ELSE None])
    ELSE None

----------------------------------------------------------------------------
(* The vault (host file system) and the plugin settings *)

\* settings.basePath, as DEFAULT_SETTINGS gives it
basePath == <<"BrainCore">>

\* getBasePath(): normalizePath(settings.basePath || 'StickyNotes')
getBasePath == <<IF basePath # <<>> THEN basePath ELSE <<"StickyNotes">>>>

BoardPath(boardName) == getBasePath \o <<boardName>>

NotePath(folderPath, id) == folderPath \o << <<"Note ">> \o id \o <<".", "md">> >>

Parent(path) == SubSeq(path, 1, Len(path) - 1)

File(text) == [kind |-> "file", text |-> text]

Folder == [kind |-> "folder", text |-> PlainText(<<>>)]

\* getAbstractFileByPath(path) is not null
Exists(v, path) == path \in DOMAIN v

\* getAbstractFileByPath(path) instanceof TFile
IsTFile(v, path) == path \in DOMAIN v /\ v[path].kind = "file"

\* getAbstractFileByPath(path) instanceof TFolder
IsTFolder(v, path) == path \in DOMAIN v /\ v[path].kind = "folder"

\* folder.children
Children(v, folderPath) == {q \in DOMAIN v : Len(q) = Len(folderPath) + 1 /\ Parent(q) = folderPath}

\* folder.children.filter(f => f instanceof TFile && f.extension === 'md')
MdFiles(v, folderPath) ==
    {q \in Children(v, folderPath) : v[q].kind = "file" /\ Extension(FileName(q)) = <<"md">>}

IsUnder(path, folderPath) ==
    Len(path) >= Len(folderPath) /\ SubSeq(path, 1, Len(folderPath)) = folderPath

\* metadataCache.getFileCache(file)
getFileCache(mc, path) == IF path \in DOMAIN mc THEN mc[path] ELSE None

Put(f, k, val) == [q \in DOMAIN f \cup {k} |-> IF q = k THEN val ELSE f[q]]

Drop(f, ks) == [q \in DOMAIN f \ ks |-> f[q]]

\* vault.create / vault.modify: the text is stored and the host re-indexes the header.
WriteFile(path, text) ==
    /\ vault' = Put(vault, path, File(text))
    /\ metadataCache' = Put(metadataCache, path, ParseFrontmatter(text))

\* vault.createFolder
MakeFolder(path) ==
    /\ vault' = Put(vault, path, Folder)
    /\ UNCHANGED metadataCache

\* vault.trash(file, true): the entry and everything under it leave the vault.
TrashEntry(path) ==
    LET gone == {q \in DOMAIN vault : IsUnder(q, path)}
    IN  /\ vault' = Drop(vault, gone)
        /\ metadataCache' = Drop(metadataCache, gone)
        /\ trash' = trash \cup gone

\* saveSettings resolved: saveData(this.settings)
saveSettings(s) == [s EXCEPT !.data = [boards |-> s.boards, migratedFiles |-> s.migratedFiles]]

\* loadSettings: Object.assign({}, DEFAULT_SETTINGS, await this.loadData())
loadSettings(s) == [s EXCEPT !.boards = s.data.boards, !.migratedFiles = s.data.migratedFiles]

DefaultConfig == [wallStyle |-> <<"dots">>, isFullWidth |-> Some(FALSE), zoom |-> Some(10)]

\* BoardConfigManager.getConfig: the stored configuration, the default being
\* recorded in memory when there is none.
getConfig(boards, folderPath) == IF folderPath \in DOMAIN boards THEN boards[folderPath] ELSE DefaultConfig

\* BoardConfigManager.updateConfig: { ...currentConfig, ...newConfig }
updateConfig(boards, folderPath, newConfig) ==
    LET currentConfig == getConfig(boards, folderPath)
    IN  Put(boards, folderPath,
            [k \in DOMAIN currentConfig \cup DOMAIN newConfig |->
                IF k \in DOMAIN newConfig THEN newConfig[k] ELSE currentConfig[k]])

----------------------------------------------------------------------------
(* Dirty check and the write of one note *)

Differs(fm, k, val) == k \notin DOMAIN fm \/ fm[k] # val

\* Variant: every existing file is taken as changed.
hasMetadataChangedAlways(cache, note) == TRUE

\* hasMetadataChanged(cache, note)
hasMetadataChanged(cache, note) ==
    IF cache = None THEN TRUE
    ELSE LET fm == cache[1]
         IN  \/ Differs(fm, "id", note.id)
             \/ Differs(fm, "x", MathRound(note.x))
             \/ Differs(fm, "y", MathRound(note.y))
             \/ Differs(fm, "rotation", note.rotation)
             \/ Differs(fm, "color", note.color)
             \/ Differs(fm, "size", note.size)
             \/ Differs(fm, "shape", note.shape)
             \/ Differs(fm, "style", note.style)
             \/ Differs(fm, "bgStyle", note.bgStyle)
             \/ Differs(fm, "pinType", note.pinType)
             \/ Differs(fm, "pinPos", note.pinPos)

\* The state of one saveNote call: the file operation it awaits (op), the
\* path it targets, the path it returned (result) and whether it ended in
\* its catch block or rejected (failed).
IoIdle == [op |-> "idle", path |-> <<>>, result |-> None, failed |-> FALSE]

IoAwait(op, path) == [op |-> op, path |-> path, result |-> None, failed |-> FALSE]

IoReturned(path) == [op |-> "done", path |-> path, result |-> Some(path), failed |-> FALSE]

\* return null after console.error: the catch block, or the occupied path
IoNull(path, failed) == [op |-> "done", path |-> path, result |-> None, failed |-> failed]

\* Variant: the path is always synthesized from the identifier.
TargetPathSynthesized(v, folderPath, note) == NotePath(folderPath, note.id)

\* saveNote, the target path: the note's locator when it names an entry of the
\* vault, else <board directory>/Note <id>.md
TargetPath(v, folderPath, note) ==
    IF note.filepath = <<>> \/ ~Exists(v, note.filepath)
    THEN NotePath(folderPath, note.id)
    ELSE note.filepath

\* Variant: an occupied path is not told from a free one; vault.create is called.
SaveNoteResolveUnguarded(v, mc, boardName, note) ==
    LET targetPath == TargetPath(v, BoardPath(boardName), note)
    IN  IF IsTFile(v, targetPath)
        THEN IF hasMetadataChanged(getFileCache(mc, targetPath), note)
             THEN IoAwait("modify", targetPath)
             ELSE IoAwait("read", targetPath)
        ELSE IoAwait("create", targetPath)

\* saveNote from constructFileContent to its first file operation.
SaveNoteResolve(v, mc, boardName, note) ==
    LET folderPath == BoardPath(boardName)
        targetPath == TargetPath(v, folderPath, note)
    IN  IF IsTFile(v, targetPath)
        THEN IF hasMetadataChanged(getFileCache(mc, targetPath), note)
             THEN IoAwait("modify", targetPath)
             ELSE IoAwait("read", targetPath)
        ELSE IF Exists(v, targetPath)
             THEN IoNull(targetPath, FALSE)
             ELSE IoAwait("create", targetPath)

\* saveNote up to its first await.
SaveNoteStart(v, mc, boardName, note) ==
    IF ~Exists(v, BoardPath(boardName))
    THEN IoAwait("mkdir", BoardPath(boardName))
    ELSE SaveNoteResolve(v, mc, boardName, note)

----------------------------------------------------------------------------
(* saveBoard *)

CHUNK_SIZE == 50

\* notes.slice(i, i + CHUNK_SIZE), as indexes of the list
Chunk(i) == {k \in 1..Len(notes) : i < k /\ k <= i + CHUNK_SIZE}

\* Variant: the loop goes on without awaiting the writes it issued.
ChunkNotAwaited == TRUE

ChunkSettled == \A k \in Chunk(save.i) : io[k].op = "done"

\* Variant: every remaining note is issued at once.
IssueAll(v, mc, i) ==
    [k \in 1..Len(notes) |->
        IF i < k THEN SaveNoteStart(v, mc, save.board, notes[k]) ELSE io[k]]

\* chunk.map(async note => saveNote(boardName, note)): every call of the
\* chunk runs to its first await in the same turn.
IssueChunk(v, mc, i) ==
    [k \in 1..Len(notes) |->
        IF i < k /\ k <= i + CHUNK_SIZE
        THEN SaveNoteStart(v, mc, save.board, notes[k])
        ELSE io[k]]

Others == <<codec, mig, view, calls, before>>

\* saveBoard(boardName, data) up to the await of saveSettings: updateConfig
\* has stored wallStyle and isFullWidth of the data in the settings.
SaveBoardCall ==
    /\ save.pc = "idle"
    /\ settings' = [settings EXCEPT !.boards =
                        updateConfig(@, BoardPath(save.board),
                                     [wallStyle |-> save.data.wallStyle,
                                      isFullWidth |-> save.data.isFullWidth])]
    /\ save' = [save EXCEPT !.pc = "config"]
    /\ UNCHANGED <<vault, metadataCache, trash, notes, io, faults, loaded, Others>>

\* saveSettings resolved: the directory is listed and the first chunk issued.
SaveConfigSettled ==
    /\ save.pc = "config"
    /\ save' = [save EXCEPT !.pc = "writing",
                            !.existing = IF IsTFolder(vault, BoardPath(save.board))
                                         THEN MdFiles(vault, BoardPath(save.board))
                                         ELSE {},
                            !.i = 0]
    /\ io' = IssueChunk(vault, metadataCache, 0)
    /\ settings' = saveSettings(settings)
    /\ UNCHANGED <<vault, metadataCache, trash, notes, faults, loaded, Others>>

\* saveSettings rejected: updateConfig is awaited outside any try block.
SaveConfigRejected ==
    /\ save.pc = "config"
    /\ faults > 0
    /\ faults' = faults - 1
    /\ save' = [save EXCEPT !.pc = "rejected"]
    /\ UNCHANGED <<vault, metadataCache, trash, settings, notes, io, loaded, Others>>

Awaiting(k, op) == save.pc = "writing" /\ k \in DOMAIN io /\ io[k].op = op

\* note.filepath = file.path; return file.path; activeFilePaths.add(path)
\* (written: the paths this call created or modified)
Returned(k, path, written) ==
    /\ io' = [io EXCEPT ![k] = IoReturned(path)]
    /\ notes' = [notes EXCEPT ![k].filepath = path]
    /\ save' = [save EXCEPT !.active = @ \cup {path}, !.wrote = @ \cup written]

\* createFolder resolved: saveNote goes on to its file operation.
FolderCreated(k) ==
    /\ Awaiting(k, "mkdir")
    /\ ~Exists(vault, io[k].path)
    /\ MakeFolder(io[k].path)
    /\ io' = [io EXCEPT ![k] = SaveNoteResolve(vault', metadataCache, save.board, notes[k])]
    /\ UNCHANGED <<trash, settings, notes, save, faults, loaded, Others>>

\* vault.modify resolved
ModifySettled(k) ==
    /\ Awaiting(k, "modify")
    /\ IsTFile(vault, io[k].path)
    /\ WriteFile(io[k].path, constructFileContent(notes[k]))
    /\ Returned(k, io[k].path, {io[k].path})
    /\ UNCHANGED <<trash, settings, faults, loaded, Others>>

\* Variant: the text read is not compared; the file is taken as up to date.
ReadSettledTrusting(k) ==
    /\ Awaiting(k, "read")
    /\ IsTFile(vault, io[k].path)
    /\ Returned(k, io[k].path, {})
    /\ UNCHANGED <<vault, metadataCache, trash, settings, faults, loaded, Others>>

\* vault.read resolved: the text is compared with the encoded note and
\* vault.modify is issued only when they differ.
ReadSettled(k) ==
    /\ Awaiting(k, "read")
    /\ IsTFile(vault, io[k].path)
    /\ IF vault[io[k].path].text # constructFileContent(notes[k])
       THEN /\ io' = [io EXCEPT ![k] = IoAwait("modify", io[k].path)]
            /\ UNCHANGED <<notes, save>>
       ELSE Returned(k, io[k].path, {})
    /\ UNCHANGED <<vault, metadataCache, trash, settings, faults, loaded, Others>>

\* vault.create resolved
CreateSettled(k) ==
    /\ Awaiting(k, "create")
    /\ ~Exists(vault, io[k].path)
    /\ IsTFolder(vault, Parent(io[k].path))
    /\ WriteFile(io[k].path, constructFileContent(notes[k]))
    /\ Returned(k, io[k].path, {io[k].path})
    /\ UNCHANGED <<trash, settings, faults, loaded, Others>>

\* What the host refuses whatever else happens: a folder or file that is
\* already there, a file that is gone.
HostRefuses(op, path) ==
    CASE op = "mkdir" -> Exists(vault, path)
      [] op = "create" -> Exists(vault, path) \/ ~IsTFolder(vault, Parent(path))
      [] OTHER -> ~IsTFile(vault, path)

\* Variant: the rejection of one note's file operation rejects saveBoard.
WriteRejectedAborts(k) ==
    /\ save.pc = "writing"
    /\ k \in DOMAIN io
    /\ io[k].op \in {"mkdir", "modify", "read", "create"}
    /\ faults > 0 /\ faults' = faults - 1
    /\ io' = [io EXCEPT ![k] = IoNull(io[k].path, TRUE)]
    /\ save' = [save EXCEPT !.pc = "rejected"]
    /\ UNCHANGED <<vault, metadataCache, trash, settings, notes, loaded, Others>>

\* Variant: the locator is assigned before the file operation is awaited,
\* so a rejected call leaves the note naming its target.
WriteRejectedRelocating(k) ==
    /\ save.pc = "writing"
    /\ k \in DOMAIN io
    /\ io[k].op \in {"mkdir", "modify", "read", "create"}
    /\ \/ HostRefuses(io[k].op, io[k].path) /\ UNCHANGED faults
       \/ ~HostRefuses(io[k].op, io[k].path) /\ faults > 0 /\ faults' = faults - 1
    /\ io' = [io EXCEPT ![k] = IoNull(io[k].path, TRUE)]
    /\ notes' = [notes EXCEPT ![k].filepath = io[k].path]
    /\ UNCHANGED <<vault, metadataCache, trash, settings, save, loaded, Others>>

\* A file operation of saveNote rejected: createFolder rejects out of
\* saveNote into saveBoard's catch, the others end in saveNote's catch; the
\* call yields no path either way.
WriteRejected(k) ==
    /\ save.pc = "writing"
    /\ k \in DOMAIN io
    /\ io[k].op \in {"mkdir", "modify", "read", "create"}
    /\ \/ HostRefuses(io[k].op, io[k].path) /\ UNCHANGED faults
       \/ ~HostRefuses(io[k].op, io[k].path) /\ faults > 0 /\ faults' = faults - 1
    /\ io' = [io EXCEPT ![k] = IoNull(io[k].path, TRUE)]
    /\ UNCHANGED <<vault, metadataCache, trash, settings, notes, save, loaded, Others>>

\* Variant: the cleanup ignores the set of paths the writes returned.
OrphansOfListing ==
    {p \in save.existing : IsTFile(vault, p) /\ HasMarker(getFileCache(metadataCache, p))}

\* Variant: no cleanup at all.
OrphansNone == {}

\* The orphans: listed paths that no saveNote returned, still files, whose
\* indexed header carries the marker.
Orphans ==
    {p \in save.existing \ save.active :
        IsTFile(vault, p) /\ HasMarker(getFileCache(metadataCache, p))}

\* await Promise.all(chunkPromises) resolved: the next chunk is issued, or,
\* after the last one, vault.trash is issued for every orphan.
SaveAdvance ==
    /\ save.pc = "writing"
    /\ ChunkSettled
    /\ IF save.i + CHUNK_SIZE < Len(notes)
       THEN /\ save' = [save EXCEPT !.i = @ + CHUNK_SIZE]
            /\ io' = IssueChunk(vault, metadataCache, save.i + CHUNK_SIZE)
       ELSE /\ save' = [save EXCEPT !.pc = IF Orphans = {} THEN "done" ELSE "trashing",
                                    !.trashing = Orphans,
                                    !.trashIssued = Orphans]
            /\ UNCHANGED io
    /\ UNCHANGED <<vault, metadataCache, trash, settings, notes, faults, loaded, Others>>

AfterTrash(p, failed) ==
    save' = [save EXCEPT !.trashing = @ \ {p},
                         !.trashFailed = @ \cup failed,
                         !.pc = IF save.trashing = {p} THEN "done" ELSE "trashing"]

\* vault.trash(file, true) resolved
TrashSettled(p) ==
    /\ save.pc = "trashing"
    /\ p \in save.trashing
    /\ Exists(vault, p)
    /\ TrashEntry(p)
    /\ AfterTrash(p, {})
    /\ UNCHANGED <<settings, notes, io, faults, loaded, Others>>

\* vault.trash rejected: caught and logged for that file alone.
TrashRejected(p) ==
    /\ save.pc = "trashing"
    /\ p \in save.trashing
    /\ \/ ~Exists(vault, p) /\ UNCHANGED faults
       \/ Exists(vault, p) /\ faults > 0 /\ faults' = faults - 1
    /\ AfterTrash(p, {p})
    /\ UNCHANGED <<vault, metadataCache, trash, settings, notes, io, loaded, Others>>

----------------------------------------------------------------------------
(* loadBoard *)

\* loadBoard's notes: parseNoteFile over the .md files of the directory.
LoadedNotes(v, mc, boardName) ==
    LET folderPath == BoardPath(boardName)
        files == IF IsTFolder(v, folderPath) THEN MdFiles(v, folderPath) ELSE {}
    IN  {parseNoteFile(f, getFileCache(mc, f), v[f].text)[1] :
            f \in {g \in files : HasMarker(getFileCache(mc, g))}}

\* loadBoard(boardName) once the save has settled.
LoadBoard ==
    /\ save.pc = "done"
    /\ loaded = None
    /\ loaded' = Some([ok |-> TRUE, notes |-> LoadedNotes(vault, metadataCache, save.board)])
    /\ settings' = [settings EXCEPT !.boards =
                        Put(@, BoardPath(save.board), getConfig(@, BoardPath(save.board)))]
    /\ UNCHANGED <<vault, metadataCache, trash, notes, save, io, faults, Others>>

\* vault.read of one note file rejected: Promise.all rejects and so does loadBoard.
LoadBoardRejected ==
    /\ save.pc = "done"
    /\ loaded = None
    /\ faults > 0
    /\ LoadedNotes(vault, metadataCache, save.board) # {}
    /\ faults' = faults - 1
    /\ loaded' = Some([ok |-> FALSE, notes |-> {}])
    /\ settings' = [settings EXCEPT !.boards =
                        Put(@, BoardPath(save.board), getConfig(@, BoardPath(save.board)))]
    /\ UNCHANGED <<vault, metadataCache, trash, notes, save, io, Others>>

----------------------------------------------------------------------------
(* Bounded inputs *)

MaxNotes == 2

MaxFaults == 1

BoardA == <<"A">>

BoardB == <<"B">>

Id1 == <<"1">>

Id2 == <<"2">>

Id3 == <<"3">>

NewNote(id) ==
    [id |-> id, x |-> 106, y |-> 52, color |-> <<"yellow">>, size |-> <<"m">>,
     shape |-> <<"square">>, style |-> <<"realistic">>, bgStyle |-> <<"solid">>,
     bgImage |-> None, rotation |-> -25, pinType |-> <<"none">>, pinPos |-> <<"center">>,
     type |-> StickyNoteType, content |-> <<"h", "i">>, filepath |-> <<>>,
     originalRotation |-> None]

\* The file a past save wrote for a note, and the note as loadBoard returns it.
Stored(note) == File(constructFileContent(note))

AsLoaded(note, path) ==
    parseNoteFile(path, ParseFrontmatter(constructFileContent(note)), constructFileContent(note))[1]

F1 == NotePath(BoardPath(BoardB), Id1)

F2 == NotePath(BoardPath(BoardB), Id2)

OldMd == BoardPath(BoardB) \o << <<"old", ".", "md">> >>

GoneMd == BoardPath(BoardB) \o << <<"gone", ".", "md">> >>

TodoMd == BoardPath(BoardB) \o << <<"todo", ".", "md">> >>

FA == NotePath(BoardPath(BoardA), <<"9">>)

\* A user's own file: no header at all.
UserFile == File(PlainText(<<"m", "i", "l", "k">>))

\* A hand-made note file: the marker and an identifier, nothing else.
HandMade(id) ==
    File([hasFm |-> TRUE,
          fm |-> <<Line("type", StickyNoteType), Line("id", <<"\"">> \o id \o <<"\"">>)>>,
          rest |-> <<"\n", "o", "l", "d">>])

Entry(path, e) == IF e = None THEN <<>> ELSE << <<path, e[1]>> >>

\* The vault as a function, from a sequence of <<path, entry>> pairs.
VaultOf(pairs) ==
    [p \in {pairs[i][1] : i \in 1..Len(pairs)} |->
        pairs[CHOOSE i \in 1..Len(pairs) : pairs[i][1] = p][2]]

IndexOf(v) == [p \in {q \in DOMAIN v : v[q].kind = "file"} |-> ParseFrontmatter(v[p].text)]

\* The vaults a save may find: another board A with one note, and board B
\* missing, or holding the user's todo.md and any of Note 1.md (a stored
\* note, a user file, a folder), Note 2.md (a stored note) and old.md (a
\* hand-made note file).
Vaults ==
    LET fixed == << <<getBasePath, Folder>>, <<BoardPath(BoardA), Folder>>,
                    <<FA, Stored(NewNote(<<"9">>))>> >>
    IN  {VaultOf(fixed)} \cup
        {VaultOf(fixed \o << <<BoardPath(BoardB), Folder>>, <<TodoMd, UserFile>> >>
                 \o Entry(F1, e1) \o Entry(F2, e2) \o Entry(OldMd, e3)) :
            e1 \in {None, Some(Stored(NewNote(Id1))), Some(UserFile), Some(Folder)},
            e2 \in {None, Some(Stored(NewNote(Id2)))},
            e3 \in {None, Some(HandMade(Id3))}}

\* Note 1 as the view may hold it: as loaded, moved to a fractional position,
\* or with its body edited; with no locator, its own, or one whose file is gone.
Notes1 ==
    {[n EXCEPT !.filepath = fp] :
        n \in {AsLoaded(NewNote(Id1), F1),
               [AsLoaded(NewNote(Id1), F1) EXCEPT !.x = 34, !.rotation = 0],
               [AsLoaded(NewNote(Id1), F1) EXCEPT !.content = <<"h", "i", "\n">>]},
        fp \in {<<>>, F1, GoneMd}}

\* Note 2: newly created, or loaded and given a background image.
Notes2 ==
    {NewNote(Id2),
     [AsLoaded(NewNote(Id2), F2) EXCEPT !.bgStyle = <<"custom">>,
                                       !.bgImage = Some(<<"Assets/", "a", ".", "png">>)]}

\* Note 3: the note of old.md as loaded.
Notes3 == {[AsLoaded(NewNote(Id3), OldMd) EXCEPT !.content = <<"o", "l", "d">>]}

Pick(S) == {None} \cup {Some(n) : n \in S}

NoteLists ==
    {l \in {o1 \o o2 \o o3 : o1 \in Pick(Notes1), o2 \in Pick(Notes2), o3 \in Pick(Notes3)} :
        Len(l) <= MaxNotes}

SaveIdle(boardName) ==
    [pc |-> "idle", board |-> boardName,
     data |-> [wallStyle |-> <<"grid">>, isFullWidth |-> None],
     existing |-> {}, active |-> {}, i |-> 0,
     trashing |-> {}, trashIssued |-> {}, trashFailed |-> {}, wrote |-> {}]

CodecIdle ==
    [pc |-> "off", note |-> NewNote(Id1), text |-> PlainText(<<>>), out |-> None,
     again |-> PlainText(<<>>)]

MigIdle == [procs |-> <<>>, log |-> {}]

ViewIdle == [views |-> <<>>, ops |-> 0]

\* boards and migratedFiles as the plugin holds them in memory, and data: the
\* settings as saveData last stored them in data.json.
DEFAULT_SETTINGS ==
    [boards |-> <<>>, migratedFiles |-> <<>>,
     data |-> [boards |-> <<>>, migratedFiles |-> <<>>]]

----------------------------------------------------------------------------
(* The reconciler: one saveBoard of board B, then loadBoard *)

Init ==
    /\ vault \in Vaults
    /\ metadataCache = IndexOf(vault)
    /\ trash = {}
    /\ settings = DEFAULT_SETTINGS
    /\ notes \in NoteLists
    /\ save = SaveIdle(BoardB)
    /\ io = [k \in 1..Len(notes) |-> IoIdle]
    /\ faults \in 0..MaxFaults
    /\ loaded = None
    /\ codec = CodecIdle
    /\ mig = MigIdle
    /\ view = ViewIdle
    /\ calls = <<>>
    /\ before = [vault |-> vault, cache |-> metadataCache, notes |-> notes]

Next ==
    \/ SaveBoardCall
    \/ SaveConfigSettled
    \/ SaveConfigRejected
    \/ \E k \in DOMAIN io : FolderCreated(k)
    \/ \E k \in DOMAIN io : ModifySettled(k)
    \/ \E k \in DOMAIN io : ReadSettled(k)
    \/ \E k \in DOMAIN io : CreateSettled(k)
    \/ \E k \in DOMAIN io : WriteRejected(k)
    \/ SaveAdvance
    \/ \E p \in save.trashing : TrashSettled(p)
    \/ \E p \in save.trashing : TrashRejected(p)
    \/ LoadBoard
    \/ LoadBoardRejected

Spec == Init /\ [][Next]_vars

----------------------------------------------------------------------------
(* Claims about the reconciler *)

BoardDir == BoardPath(save.board)

Encoded(k) == constructFileContent(notes[k])

\* No file operation of the save was rejected.
NoFailure == (\A k \in DOMAIN io : ~io[k].failed) /\ save.trashFailed = {}

\* The path saveNote resolves for note k in the vault as the save found it.
TargetOf(k) == TargetPath(before.vault, BoardDir, before.notes[k])

Unmarked(v, p) == IsTFile(v, p) /\ ~HasMarker(ParseFrontmatter(v[p].text))

\* C1: a file of the board directory whose header lacks the sticky-note
\* marker, whatever its name, is left in place with its content by the save.
C1_UnmarkedFilesUntouched ==
    \A p \in Children(before.vault, BoardDir) :
        Unmarked(before.vault, p) => p \in DOMAIN vault /\ vault[p] = before.vault[p]

\* C1 holds for the orphan cleanup alone: no unmarked file is moved to trash.
C1_UnmarkedFilesNotTrashed ==
    \A p \in Children(before.vault, BoardDir) : Unmarked(before.vault, p) => p \notin trash

\* F1: a file of the directory that note k of the list refers to, by its
\* locator or, the locator naming no entry, as Note <id>.md.
ReferencedFile(p, k) == IsTFile(before.vault, p) /\ TargetOf(k) = p

\* F2: a qualifying note file that is neither the locator nor the target path of any note.
UnreferencedNoteFile(p) ==
    /\ p \in MdFiles(before.vault, BoardDir)
    /\ HasMarker(getFileCache(before.cache, p))
    /\ \A k \in DOMAIN before.notes : before.notes[k].filepath # p /\ TargetOf(k) # p

\* C2: once saveBoard has settled with no file operation rejected, every
\* referenced file F1 exists and holds the encoding of its note, and every
\* unreferenced qualifying file F2 has left the directory for the trash.
C2_OrphanCleanup ==
    (save.pc = "done" /\ NoFailure) =>
        /\ \A k \in DOMAIN notes : \A p \in Children(before.vault, BoardDir) :
              ReferencedFile(p, k) => IsTFile(vault, p) /\ vault[p].text = Encoded(k)
        /\ \A p \in Children(before.vault, BoardDir) :
              UnreferencedNoteFile(p) => p \notin DOMAIN vault /\ p \in trash

C2_Witness ==
    /\ save.pc = "done" /\ NoFailure
    /\ \E k \in DOMAIN notes :
          ReferencedFile(F1, k) /\ before.notes[k].filepath = F1 /\ vault[F1] # before.vault[F1]
    /\ UnreferencedNoteFile(OldMd) /\ OldMd \in trash

Ids(S) == {n.id : n \in S}

ListIds == {notes[k].id : k \in DOMAIN notes}

\* Equality of two note records up to integer rounding of x and y (the
\* storage locator is not part of the comparison).
EqualUpToRounding(saved, got) ==
    [saved EXCEPT !.x = MathRound(saved.x), !.y = MathRound(saved.y), !.filepath = <<>>]
        = [got EXCEPT !.filepath = <<>>]

LoadedOk == save.pc = "done" /\ loaded # None /\ loaded[1].ok /\ NoFailure

Occupied(k) == IsTFolder(before.vault, TargetOf(k))

Written(k) ==
    /\ io[k].result # None
    /\ notes[k].filepath = io[k].result[1]
    /\ IsTFile(vault, io[k].result[1])
    /\ vault[io[k].result[1]].text = Encoded(k)

\* C5: the rejection of one note's file operation or of one orphan's
\* move-to-trash never makes saveBoard reject (it rejects only before any
\* note is written, when saveSettings does); once it has settled, every note
\* whose own write was not rejected and whose target path is free is
\* written, and every orphan whose own trash was not rejected is trashed.
C5_ItemFailuresIsolated ==
    /\ save.pc = "rejected" => \A k \in DOMAIN io : io[k].op = "idle"
    /\ save.pc = "done" =>
          /\ \A k \in DOMAIN notes : io[k].failed \/ Occupied(k) \/ Written(k)
          /\ \A p \in Children(before.vault, BoardDir) :
                (UnreferencedNoteFile(p) /\ p \notin save.trashFailed) => p \in trash

C5_Witness ==
    /\ save.pc = "done"
    /\ \E k \in DOMAIN notes : io[k].failed /\ before.notes[k].filepath = F1 /\ IsTFile(before.vault, F1)
    /\ \E k \in DOMAIN notes : ~io[k].failed /\ Written(k)
    /\ OldMd \in trash

\* C6: vault.trash is issued only when every saveNote of the save has
\* settled, and no path the save created or modified is ever among the paths
\* it hands to vault.trash.
C6_TrashAfterWrites ==
    /\ save.trashIssued # {} => \A k \in DOMAIN io : io[k].op = "done"
    /\ save.wrote \cap save.trashIssued = {}
    /\ save.wrote \cap trash = {}

C6_Witness ==
    /\ save.pc = "done"
    /\ save.wrote # {}
    /\ save.trashIssued # {}
    /\ Cardinality(save.wrote) = MaxNotes

----------------------------------------------------------------------------
(* The serializer on its own: one note record encoded, then decoded *)

IdQuote == <<"a", "\"", "b">>

AssetPath == <<"Assets/", "a", ".", "png">>

\* Valid note records: identifiers with and without a quote, integer and
\* fractional coordinates, the optional fields absent and present, bodies
\* empty, plain and with blank edges.
CodecNotes ==
    {[NewNote(id) EXCEPT !.x = x, !.rotation = r, !.originalRotation = o,
                         !.bgStyle = bg[1], !.bgImage = bg[2], !.content = c] :
        id \in {Id1, IdQuote},
        x \in {106, 100, -34, 0},
        r \in {-25, 0},
        o \in {None, Some(0), Some(300)},
        bg \in {<<<<"solid">>, None>>, <<<<"custom">>, Some(AssetPath)>>},
        c \in {<<"h", "i">>, <<>>, <<" ", "h", "i", "\n">>}}

\* Note file texts in the wire format: what constructFileContent writes for
\* the records above, and the same with a hand-edited fractional x.
CodecTexts ==
    {constructFileContent(n) : n \in CodecNotes}
        \cup {[constructFileContent(n) EXCEPT !.fm[3] = Line("x", NumText(106))] :
                 n \in CodecNotes}

InitCodec ==
    /\ vault = VaultOf(<< <<getBasePath, Folder>>, <<BoardPath(BoardB), Folder>> >>)
    /\ metadataCache = IndexOf(vault)
    /\ trash = {}
    /\ settings = DEFAULT_SETTINGS
    /\ notes = <<>>
    /\ save = SaveIdle(BoardB)
    /\ io = <<>>
    /\ faults = 0
    /\ loaded = None
    /\ codec \in {[CodecIdle EXCEPT !.pc = "ready", !.note = n] : n \in CodecNotes}
                 \cup {[CodecIdle EXCEPT !.pc = "text", !.text = t] : t \in CodecTexts}
    /\ mig = MigIdle
    /\ view = ViewIdle
    /\ calls = <<>>
    /\ before = [vault |-> vault, cache |-> metadataCache, notes |-> notes]

NotCodec == <<vault, metadataCache, trash, settings, notes, save, io, faults, loaded,
              mig, view, calls, before>>

\* constructFileContent(note)
Encode ==
    /\ codec.pc = "ready"
    /\ codec' = [codec EXCEPT !.pc = "encoded", !.text = constructFileContent(codec.note)]
    /\ UNCHANGED NotCodec

\* parseNoteFile over the file that holds the text, its header as the index gives it
Decode ==
    /\ codec.pc = "encoded"
    /\ codec' = [codec EXCEPT !.pc = "decoded",
                              !.out = parseNoteFile(NotePath(BoardPath(BoardB), codec.note.id),
                                                    ParseFrontmatter(codec.text), codec.text)]
    /\ UNCHANGED NotCodec

\* parseNoteFile over a file that holds a given text
DecodeText ==
    /\ codec.pc = "text"
    /\ codec' = [codec EXCEPT !.pc = "parsed",
                              !.out = parseNoteFile(F1, ParseFrontmatter(codec.text), codec.text)]
    /\ UNCHANGED NotCodec

\* constructFileContent over the record parseNoteFile returned
Reencode ==
    /\ codec.pc \in {"decoded", "parsed"}
    /\ codec.out # None
    /\ codec' = [codec EXCEPT !.pc = "reencoded", !.again = constructFileContent(codec.out[1])]
    /\ UNCHANGED NotCodec

NextCodec == Encode \/ Decode \/ DecodeText \/ Reencode

SpecCodec == InitCodec /\ [][NextCodec]_vars

\* C4: the decoding of the encoding of a note record equals the record in
\* every field, except that x and y are rounded to the nearest integer.
C4_DecodeEncode ==
    codec.pc = "decoded" =>
        /\ codec.out # None
        /\ EqualUpToRounding(codec.note, codec.out[1])

\* What the round trip does keep: every field but the image reference, with
\* x and y rounded and the body trimmed.
C4_FieldsKept ==
    codec.pc = "decoded" =>
        /\ codec.out # None
        /\ EqualUpToRounding([codec.note EXCEPT !.bgImage = None, !.content = Trim(@)],
                             codec.out[1])

----------------------------------------------------------------------------
(* Legacy whiteboard files: JSON text and JSON.parse *)

\* The text of a .json file is a sequence of tokens, each a sequence of
\* characters: the brackets, quoted strings and number literals (the
\* separators are left out).
Tok(c) == <<c>>

JS(s) == <<"\"">> \o s \o <<"\"">>

Key(k) == JS(<<k>>)

IsJsonString(t) == Len(t) >= 2 /\ t[1] = "\"" /\ t[Len(t)] = "\""

JStr(s) == [t |-> "str", s |-> s]

JNum(n) == [t |-> "num", n |-> n]

JArr(items) == [t |-> "arr", items |-> items]

JObj(members) == [t |-> "obj", members |-> members]

JsonFail == [ok |-> FALSE, v |-> [t |-> "none"], rest |-> <<>>]

RECURSIVE JsonValue(_), JsonItems(_, _), JsonMembers(_, _)
JsonValue(ts) ==
    IF ts = <<>> THEN JsonFail
    ELSE IF Head(ts) = Tok("[") THEN JsonItems(Tail(ts), <<>>)
    ELSE IF Head(ts) = Tok("{") THEN JsonMembers(Tail(ts), <<>>)
    ELSE IF IsJsonString(Head(ts))
         THEN [ok |-> TRUE, v |-> JStr(SubSeq(Head(ts), 2, Len(Head(ts)) - 1)), rest |-> Tail(ts)]
    ELSE IF IsNumberText(Head(ts))
         THEN [ok |-> TRUE, v |-> JNum(NumberValue(Head(ts))), rest |-> Tail(ts)]
    ELSE JsonFail

JsonItems(ts, acc) ==
    IF ts = <<>> THEN JsonFail
    ELSE IF Head(ts) = Tok("]") THEN [ok |-> TRUE, v |-> JArr(acc), rest |-> Tail(ts)]
    ELSE LET r == JsonValue(ts)
         IN  IF r.ok THEN JsonItems(r.rest, Append(acc, r.v)) ELSE JsonFail

JsonMembers(ts, acc) ==
    IF ts = <<>> THEN JsonFail
    ELSE IF Head(ts) = Tok("}") THEN [ok |-> TRUE, v |-> JObj(acc), rest |-> Tail(ts)]
    ELSE IF ~IsJsonString(Head(ts)) THEN JsonFail
    ELSE LET r == JsonValue(Tail(ts))
         IN  IF r.ok
             THEN JsonMembers(r.rest, Put(acc, SubSeq(Head(ts), 2, Len(Head(ts)) - 1), r.v))
             ELSE JsonFail

\* JSON.parse(content): ok is FALSE where it throws.
JSONParse(ts) ==
    LET r == JsonValue(ts)
    IN  [ok |-> r.ok /\ r.rest = <<>>, v |-> r.v]

HasMember(v, k) == v.t = "obj" /\ <<k>> \in DOMAIN v.members

\* Variant: a missing notes member is taken as an empty array.
LegacyNotesOrEmpty(parsed) ==
    IF parsed.t = "arr" THEN Some(parsed)
    ELSE IF HasMember(parsed, "notes") THEN Some(parsed.members[<<"notes">>])
    ELSE Some(JArr(<<>>))

\* Array.isArray(parsed) ? parsed : parsed.notes
LegacyNotes(parsed) ==
    IF parsed.t = "arr" THEN Some(parsed)
    ELSE IF HasMember(parsed, "notes") THEN Some(parsed.members[<<"notes">>])
    ELSE None

\* Variant: the wall style of the legacy content is not taken.
LegacyWallStyleDots(parsed) == <<"dots">>

\* (!Array.isArray(parsed) && parsed.wallStyle) ? parsed.wallStyle : 'dots'
LegacyWallStyle(parsed) ==
    IF HasMember(parsed, "wallStyle") /\ parsed.members[<<"wallStyle">>].s # <<>>
    THEN parsed.members[<<"wallStyle">>].s
    ELSE <<"dots">>

\* { ...note, type: 'sticky-note', content: note.content || '', filepath: '' }
NoteData(note) ==
    LET m == note.members
    IN  [id |-> m[<<"id">>].s, x |-> m[<<"x">>].n, y |-> m[<<"y">>].n,
         color |-> m[<<"color">>].s, size |-> m[<<"size">>].s, shape |-> m[<<"shape">>].s,
         style |-> m[<<"style">>].s, bgStyle |-> m[<<"bgStyle">>].s, bgImage |-> None,
         rotation |-> m[<<"rotation">>].n, pinType |-> m[<<"pinType">>].s,
         pinPos |-> m[<<"pinPos">>].s, type |-> StickyNoteType,
         content |-> IF HasMember(note, "content") THEN m[<<"content">>].s ELSE <<>>,
         filepath |-> <<>>, originalRotation |-> None]

NoteDataList(items) == [i \in 1..Len(items) |-> NoteData(items[i])]

----------------------------------------------------------------------------
(* LegacyMigrationManager.checkAndMigrate *)

LEGACY_FOLDER == <<"Whiteboards">>

DataJson == <<"data", ".", "json">>

\* Variant: the renamed file keeps the .json extension.
MigratedPathKeepsJson(path) == Parent(path) \o <<<<"migrated", ".">> \o FileName(path)>>

\* `${file.path}.migrated`
MigratedPath(path) == Parent(path) \o <<FileName(path) \o <<".", "migrated">>>>

\* The folder the pass scans: <base>/Whiteboards when it exists, else the base.
LegacyTarget(v) ==
    IF Exists(v, getBasePath \o <<LEGACY_FOLDER>>) THEN getBasePath \o <<LEGACY_FOLDER>>
    ELSE getBasePath

\* targetFolder.children.filter(f => f instanceof TFile && f.extension === 'json')
JsonFiles(v, folderPath) ==
    {q \in Children(v, folderPath) : v[q].kind = "file" /\ Extension(FileName(q)) = <<"json">>}

\* The orders in which the host may list the files.
Orderings(S) ==
    {f \in [1..Cardinality(S) -> S] : \A i, j \in 1..Cardinality(S) : f[i] = f[j] => i = j}

Range(f) == {f[i] : i \in DOMAIN f}

\* Variant: the original is removed instead of renamed.
RenameEntryLoses(from, to) ==
    /\ vault' = Drop(vault, {from})
    /\ metadataCache' = Drop(metadataCache, {from})

\* vault.rename(file, newPath)
RenameEntry(from, to) ==
    /\ vault' = Put(Drop(vault, {from}), to, vault[from])
    /\ metadataCache' = Put(Drop(metadataCache, {from}), to, getFileCache(metadataCache, from))

\* One run of checkAndMigrate: where it stands (pc), the passes it has ended,
\* the files still to visit, the file in hand with its board name, the notes
\* still to save and the saveNote call it awaits.
MigProc ==
    [pc |-> "idle", pass |-> 0, files |-> <<>>, file |-> <<>>, boardName |-> <<>>,
     wallStyle |-> <<>>, todo |-> <<>>, io |-> IoIdle]

\* The head of the for loop: data.json and the names in migratedFiles are
\* passed over; the loop stops at the first file to read, or ends the pass.
RECURSIVE SkipDone(_, _)
SkipDone(files, migratedFiles) ==
    IF files = <<>> THEN <<>>
    ELSE IF FileName(Head(files)) = DataJson \/ FileName(Head(files)) \in Range(migratedFiles)
         THEN SkipDone(Tail(files), migratedFiles)
         ELSE files

NextFile(pr, files, migratedFiles) ==
    LET fs == SkipDone(files, migratedFiles)
    IN  IF fs = <<>>
        THEN [MigProc EXCEPT !.pass = pr.pass + 1]
        ELSE [MigProc EXCEPT !.pass = pr.pass, !.pc = "read", !.file = Head(fs), !.files = Tail(fs)]

\* The loop over the notes: a saveNote that returns null at once (its path is
\* occupied) is passed; after the last note the name is pushed and
\* saveSettings awaited.
RECURSIVE NextNote(_, _, _, _)
NextNote(pr, todo, v, mc) ==
    IF todo = <<>> THEN [pr EXCEPT !.pc = "mark", !.todo = <<>>, !.io = IoIdle]
    ELSE LET c == SaveNoteStart(v, mc, pr.boardName, Head(todo))
         IN  IF c.op = "done" THEN NextNote(pr, Tail(todo), v, mc)
             ELSE [pr EXCEPT !.pc = "note", !.todo = todo, !.io = c]

\* this.plugin.settings.migratedFiles.push(file.name), when the loop has ended
Pushed(s, pr, new) ==
    IF new.pc = "mark" THEN [s EXCEPT !.migratedFiles = Append(@, FileName(pr.file))] ELSE s

\* History: what a pass did to which legacy file (and the note file written).
Logged(m, op) ==
    [pass |-> mig.procs[m].pass + 1, file |-> mig.procs[m].file, op |-> op, path |-> <<>>]

Step(m, new, entries) ==
    mig' = [mig EXCEPT !.procs[m] = new,
                       !.log = @ \cup entries
                                 \cup (IF new.pc = "mark" /\ mig.procs[m].pc # "mark"
                                       THEN {Logged(m, "pushed")} ELSE {})]

At(m, pc) == m \in DOMAIN mig.procs /\ mig.procs[m].pc = pc

NotMig == <<notes, save, io, loaded, codec, view, calls, before>>

MaxPasses == 2

\* checkAndMigrate called: the folder is found, its .json files listed and
\* the loop run to its first vault.read.
MigrateStart(m) ==
    /\ At(m, "idle")
    /\ mig.procs[m].pass < MaxPasses
    /\ IF IsTFolder(vault, LegacyTarget(vault))
       THEN \E order \in Orderings(JsonFiles(vault, LegacyTarget(vault))) :
                Step(m, NextFile(mig.procs[m], order, settings.migratedFiles), {})
       ELSE Step(m, [mig.procs[m] EXCEPT !.pass = @ + 1], {})
    /\ UNCHANGED <<vault, metadataCache, trash, settings, faults, NotMig>>

\* vault.read resolved: the text is parsed; a text that does not parse ends
\* in the catch block, one without notes is passed over; else the board
\* folder is created when missing, or updateConfig called at once.
MigrateRead(m) ==
    /\ At(m, "read")
    /\ IsTFile(vault, mig.procs[m].file)
    /\ LET pr == mig.procs[m]
           parsed == JSONParse(vault[pr.file].text.rest)
           boardName == Basename(FileName(pr.file))
           newBoardPath == BoardPath(boardName)
           wallStyle == LegacyWallStyle(parsed.v)
           found == [pr EXCEPT !.boardName = boardName, !.wallStyle = wallStyle,
                               !.todo = NoteDataList(LegacyNotes(parsed.v)[1].items)]
       IN  IF ~parsed.ok
           THEN /\ Step(m, NextFile(pr, pr.files, settings.migratedFiles), {Logged(m, "parseFailed")})
                /\ UNCHANGED settings
           ELSE IF LegacyNotes(parsed.v) = None
           THEN /\ Step(m, NextFile(pr, pr.files, settings.migratedFiles), {Logged(m, "noNotes")})
                /\ UNCHANGED settings
           ELSE IF ~Exists(vault, newBoardPath)
           THEN /\ Step(m, [found EXCEPT !.pc = "mkdir"], {Logged(m, "read")})
                /\ UNCHANGED settings
           ELSE /\ Step(m, [found EXCEPT !.pc = "config"], {Logged(m, "read")})
                /\ settings' = [settings EXCEPT !.boards =
                                    updateConfig(@, newBoardPath, [wallStyle |-> wallStyle])]
    /\ UNCHANGED <<vault, metadataCache, trash, faults, NotMig>>

\* vault.createFolder(newBoardPath) resolved; updateConfig is called.
MigrateFolderCreated(m) ==
    /\ At(m, "mkdir")
    /\ ~Exists(vault, BoardPath(mig.procs[m].boardName))
    /\ MakeFolder(BoardPath(mig.procs[m].boardName))
    /\ settings' = [settings EXCEPT !.boards =
                        updateConfig(@, BoardPath(mig.procs[m].boardName),
                                     [wallStyle |-> mig.procs[m].wallStyle])]
    /\ Step(m, [mig.procs[m] EXCEPT !.pc = "config"], {Logged(m, "mkdir")})
    /\ UNCHANGED <<trash, faults, NotMig>>

\* saveSettings of updateConfig resolved; the loop over the notes begins.
MigrateConfigSaved(m) ==
    /\ At(m, "config")
    /\ LET pr == mig.procs[m]
           new == NextNote(pr, pr.todo, vault, metadataCache)
       IN  /\ settings' = Pushed(saveSettings(settings), pr, new)
           /\ Step(m, new, {Logged(m, "settings")})
    /\ UNCHANGED <<vault, metadataCache, trash, faults, NotMig>>

\* The file operation that saveNote awaits resolved.
MigrateNoteSettled(m) ==
    /\ At(m, "note")
    /\ ~HostRefuses(mig.procs[m].io.op, mig.procs[m].io.path)
    /\ LET pr == mig.procs[m]
           c == pr.io
           note == Head(pr.todo)
       IN  CASE c.op = "mkdir" ->
                  /\ MakeFolder(c.path)
                  /\ LET r == SaveNoteResolve(vault', metadataCache, pr.boardName, note)
                         new == IF r.op = "done"
                                THEN NextNote(pr, Tail(pr.todo), vault', metadataCache)
                                ELSE [pr EXCEPT !.io = r]
                     IN  /\ settings' = Pushed(settings, pr, new)
                         /\ Step(m, new, {Logged(m, "mkdir")})
             [] c.op = "read" /\ vault[c.path].text # constructFileContent(note) ->
                  /\ Step(m, [pr EXCEPT !.io = IoAwait("modify", c.path)], {})
                  /\ UNCHANGED <<vault, metadataCache, settings>>
             [] c.op = "read" /\ vault[c.path].text = constructFileContent(note) ->
                  /\ settings' = Pushed(settings, pr, NextNote(pr, Tail(pr.todo), vault, metadataCache))
                  /\ Step(m, NextNote(pr, Tail(pr.todo), vault, metadataCache), {})
                  /\ UNCHANGED <<vault, metadataCache>>
             [] OTHER ->
                  /\ WriteFile(c.path, constructFileContent(note))
                  /\ LET new == NextNote(pr, Tail(pr.todo), vault', metadataCache')
                     IN  /\ settings' = Pushed(settings, pr, new)
                         /\ Step(m, new, {[Logged(m, "write") EXCEPT !.path = c.path]})
    /\ UNCHANGED <<trash, faults, NotMig>>

Refused(op, path) ==
    \/ HostRefuses(op, path) /\ UNCHANGED faults
    \/ ~HostRefuses(op, path) /\ faults > 0 /\ faults' = faults - 1

\* The file operation that saveNote awaits rejected: createFolder rejects out
\* of saveNote into the catch block of checkAndMigrate; any other rejection
\* ends in saveNote's own catch block, saveNote returns null and the loop
\* goes on.
MigrateNoteRejected(m) ==
    /\ At(m, "note")
    /\ Refused(mig.procs[m].io.op, mig.procs[m].io.path)
    /\ LET pr == mig.procs[m]
           new == NextNote(pr, Tail(pr.todo), vault, metadataCache)
       IN  IF pr.io.op = "mkdir"
           THEN /\ Step(m, NextFile(pr, pr.files, settings.migratedFiles), {Logged(m, "failed")})
                /\ UNCHANGED settings
           ELSE /\ settings' = Pushed(settings, pr, new)
                /\ Step(m, new, {Logged(m, "noteFailed")})
    /\ UNCHANGED <<vault, metadataCache, trash, NotMig>>

\* saveSettings after the push resolved; vault.rename is called.
MigrateMarkSaved(m) ==
    /\ At(m, "mark")
    /\ settings' = saveSettings(settings)
    /\ Step(m, [mig.procs[m] EXCEPT !.pc = "rename"], {Logged(m, "marked")})
    /\ UNCHANGED <<vault, metadataCache, trash, faults, NotMig>>

\* What the host refuses of the operations checkAndMigrate awaits itself.
MigRefuses(pr) ==
    CASE pr.pc = "read" -> ~IsTFile(vault, pr.file)
      [] pr.pc = "mkdir" -> Exists(vault, BoardPath(pr.boardName))
      [] pr.pc = "rename" -> ~IsTFile(vault, pr.file) \/ Exists(vault, MigratedPath(pr.file))
      [] OTHER -> FALSE

FailedOp(pc) ==
    CASE pc = "read" -> "readFailed"
      [] pc = "mkdir" -> "mkdirFailed"
      [] pc = "config" -> "configFailed"
      [] pc = "mark" -> "markFailed"
      [] OTHER -> "renameFailed"

\* vault.rename resolved; the loop goes to the next file.
MigrateRenamed(m) ==
    /\ At(m, "rename")
    /\ ~MigRefuses(mig.procs[m])
    /\ RenameEntry(mig.procs[m].file, MigratedPath(mig.procs[m].file))
    /\ Step(m, NextFile(mig.procs[m], mig.procs[m].files, settings.migratedFiles),
            {Logged(m, "renamed")})
    /\ UNCHANGED <<trash, settings, faults, NotMig>>

\* An operation that checkAndMigrate awaits itself rejected: the catch block
\* logs it and the loop goes to the next file.
MigrateRejected(m) ==
    /\ m \in DOMAIN mig.procs
    /\ mig.procs[m].pc \in {"read", "mkdir", "config", "mark", "rename"}
    /\ \/ MigRefuses(mig.procs[m]) /\ UNCHANGED faults
       \/ ~MigRefuses(mig.procs[m]) /\ faults > 0 /\ faults' = faults - 1
    /\ Step(m, NextFile(mig.procs[m], mig.procs[m].files, settings.migratedFiles),
            {Logged(m, FailedOp(mig.procs[m].pc))})
    /\ UNCHANGED <<vault, metadataCache, trash, settings, NotMig>>

\* The plugin is loaded again: the settings are read back from data.json.
Reload ==
    /\ \A m \in DOMAIN mig.procs : mig.procs[m].pc = "idle"
    /\ settings # loadSettings(settings)
    /\ settings' = loadSettings(settings)
    /\ UNCHANGED <<vault, metadataCache, trash, faults, mig, NotMig>>

\* Legacy inputs: the text of a legacy note, of a bare array of notes, of an
\* object with a wall style and notes, of an object without notes, and a
\* truncated text.
LegacyNoteText(n, withContent) ==
    << Tok("{"), Key("id"), JS(n.id), Key("x"), NumText(n.x), Key("y"), NumText(n.y),
       Key("color"), JS(n.color), Key("size"), JS(n.size), Key("shape"), JS(n.shape),
       Key("style"), JS(n.style), Key("bgStyle"), JS(n.bgStyle),
       Key("rotation"), NumText(n.rotation), Key("pinType"), JS(n.pinType),
       Key("pinPos"), JS(n.pinPos) >>
    \o (IF withContent THEN <<Key("content"), JS(n.content)>> ELSE <<>>)
    \o <<Tok("}")>>

ArrayText(ns) == <<Tok("[")>> \o ns \o <<Tok("]")>>

\* A legacy object: wallStyle, a zoom of 2 and the notes
ObjectText(wallStyle, ns) ==
    <<Tok("{"), Key("wallStyle"), JS(wallStyle), Key("zoom"), NumText(20), Key("notes")>>
        \o ArrayText(ns) \o <<Tok("}")>>

NoNotesText == <<Tok("{"), Key("wallStyle"), JS(<<"grid">>), Tok("}")>>

BrokenText == <<Tok("{"), Key("notes"), Tok("[")>>

Ideas == <<"Ideas">>

JsonName(base) == base \o <<".", "json">>

IdeasNote1 == NotePath(BoardPath(Ideas), Id1)

\* The vaults a migration pass may find: the legacy files in the base folder
\* or in <base>/Whiteboards; Ideas.json as an object or a bare array; a second
\* file that is valid, truncated, without notes, or data.json; a board folder
\* Ideas already there with a note file; a file already at Ideas.json.migrated.
LegacyVaults ==
    {VaultOf(<< <<getBasePath, Folder>>, <<dir, Folder>>,
                <<dir \o <<JsonName(Ideas)>>, File(PlainText(ideas))>> >>
             \o Entry(dir \o <<JsonName(second[1])>>, second[2])
             \o Entry(BoardPath(Ideas), board)
             \o (IF board = None THEN <<>>
                 ELSE << <<IdeasNote1, Stored([NewNote(Id1) EXCEPT !.content = <<"o", "l", "d">>])>> >>)
             \o Entry(dir \o <<JsonName(Ideas) \o <<".", "migrated">>>>, kept)) :
        dir \in {getBasePath, getBasePath \o <<LEGACY_FOLDER>>},
        ideas \in {ObjectText(<<"grid">>, LegacyNoteText(NewNote(Id1), TRUE)
                                          \o LegacyNoteText(NewNote(Id2), FALSE)),
                   ArrayText(LegacyNoteText(NewNote(Id1), TRUE))},
        second \in {<<<<"Plans">>, None>>,
                    <<<<"Plans">>, Some(File(PlainText(ArrayText(LegacyNoteText(NewNote(Id3), TRUE)))))>>,
                    <<<<"Plans">>, Some(File(PlainText(BrokenText)))>>,
                    <<<<"Plans">>, Some(File(PlainText(NoNotesText)))>>,
                    <<<<"data">>, Some(File(PlainText(ArrayText(LegacyNoteText(NewNote(Id3), TRUE)))))>>},
        board \in {None, Some(Folder)},
        kept \in {None, Some(File(PlainText(BrokenText)))}}

InitMig ==
    /\ vault \in LegacyVaults
    /\ metadataCache = IndexOf(vault)
    /\ trash = {}
    /\ settings = DEFAULT_SETTINGS
    /\ notes = <<>>
    /\ save = SaveIdle(BoardB)
    /\ io = <<>>
    /\ faults \in 0..MaxFaults
    /\ loaded = None
    /\ codec = CodecIdle
    /\ mig = [procs |-> <<MigProc>>, log |-> {}]
    /\ view = ViewIdle
    /\ calls = <<>>
    /\ before = [vault |-> vault, cache |-> metadataCache, notes |-> notes]

NextMig ==
    \/ \E m \in DOMAIN mig.procs : MigrateStart(m)
    \/ \E m \in DOMAIN mig.procs : MigrateRead(m)
    \/ \E m \in DOMAIN mig.procs : MigrateFolderCreated(m)
    \/ \E m \in DOMAIN mig.procs : MigrateConfigSaved(m)
    \/ \E m \in DOMAIN mig.procs : MigrateNoteSettled(m)
    \/ \E m \in DOMAIN mig.procs : MigrateNoteRejected(m)
    \/ \E m \in DOMAIN mig.procs : MigrateMarkSaved(m)
    \/ \E m \in DOMAIN mig.procs : MigrateRenamed(m)
    \/ \E m \in DOMAIN mig.procs : MigrateRejected(m)
    \/ Reload

SpecMig == InitMig /\ [][NextMig]_vars

----------------------------------------------------------------------------
(* Claims about the migration *)

\* The legacy files the first pass finds, and every file of the scanned folder.
LegacyFiles ==
    {f \in JsonFiles(before.vault, LegacyTarget(before.vault)) : FileName(f) # DataJson}

ScannedFiles ==
    {f \in Children(before.vault, LegacyTarget(before.vault)) : IsTFile(before.vault, f)}

WithSuffix(f) == Parent(f) \o <<FileName(f) \o <<".", "migrated">>>>

\* Pass p took file f through to the end: vault.rename resolved.
MigratedIn(f, p) == \E e \in mig.log : e.pass = p /\ e.file = f /\ e.op = "renamed"

WriteOps == {"mkdir", "settings", "write", "pushed", "marked", "renamed"}

Count(seq, x) == Cardinality({i \in DOMAIN seq : seq[i] = x})

KeptAsMigrated(f) ==
    /\ ~Exists(vault, f)
    /\ IsTFile(vault, WithSuffix(f))
    /\ vault[WithSuffix(f)] = before.vault[f]

\* C7: for a legacy file that the first pass migrated, any later pass
\* performs no file or settings write; the original is kept exactly once,
\* under the .migrated suffix, its name is listed once, and the one board
\* directory made for it is the one named after it.
C7_MigrationIdempotent ==
    /\ \A f \in LegacyFiles : MigratedIn(f, 1) =>
          /\ \A e \in mig.log : e.file = f => e.pass = 1
          /\ KeptAsMigrated(f)
          /\ ~Exists(vault, WithSuffix(WithSuffix(f)))
          /\ Count(settings.migratedFiles, FileName(f)) = 1
          /\ IsTFolder(vault, BoardPath(Basename(FileName(f))))
    /\ \A e \in mig.log : (e.pass > 1 /\ e.op \in WriteOps) =>
          e.file \in LegacyFiles /\ ~MigratedIn(e.file, 1)
    /\ {q \in DOMAIN vault \ DOMAIN before.vault : vault[q].kind = "folder"}
          \subseteq {BoardPath(Basename(FileName(f))) : f \in LegacyFiles}

C7_Witness ==
    /\ mig.procs[1].pc = "idle" /\ mig.procs[1].pass = 2
    /\ \E f \in LegacyFiles : MigratedIn(f, 1)
    /\ \E e \in mig.log : e.pass = 2

\* C8: every file of the scanned folder stays, with its content, at its path
\* or at its path with .migrated appended, and nothing is moved to trash; a
\* file whose migration succeeded is listed in the stored migratedFiles and
\* stands at its original path with .migrated appended.
C8_MigrationNonDestructive ==
    /\ trash = {}
    /\ \A f \in ScannedFiles :
          \/ IsTFile(vault, f) /\ vault[f] = before.vault[f]
          \/ KeptAsMigrated(f)
    /\ \A f \in LegacyFiles : (\E p \in 1..MaxPasses : MigratedIn(f, p)) =>
          /\ FileName(f) \in Range(settings.data.migratedFiles)
          /\ KeptAsMigrated(f)

C8_Witness ==
    /\ \E f \in LegacyFiles : MigratedIn(f, 1) /\ KeptAsMigrated(f)
    /\ \E f \in LegacyFiles : \E e \in mig.log : e.file = f /\ e.op = "renameFailed"

\* C9: a file whose read or parse failed, or one of whose notes was not
\* written, is in that pass neither pushed to migratedFiles nor renamed, and
\* every other legacy file of the pass is still visited.
C9_FailedFileNotMarked ==
    /\ \A e \in mig.log : e.op \in {"readFailed", "parseFailed", "noteFailed"} =>
          \A d \in mig.log : (d.pass = e.pass /\ d.file = e.file) =>
              d.op \notin {"pushed", "marked", "renamed"}
    /\ mig.procs[1].pass >= 1 =>
          \A f \in LegacyFiles : \E e \in mig.log : e.pass = 1 /\ e.file = f

\* C9 without the note writes: a failed read or parse leaves the file
\* unmarked and in place, and the other files are visited.
C9_ReadOrParseFailure ==
    /\ \A e \in mig.log : e.op \in {"readFailed", "parseFailed"} =>
          \A d \in mig.log : (d.pass = e.pass /\ d.file = e.file) =>
              d.op \notin {"pushed", "marked", "renamed"}
    /\ mig.procs[1].pass >= 1 =>
          \A f \in LegacyFiles : \E e \in mig.log : e.pass = 1 /\ e.file = f

----------------------------------------------------------------------------
(* The views: the dashboard container and the code-block widget *)

Default == <<"default">>

\* ensureBaseFolder
EnsureBase(v) == IF Exists(v, getBasePath) THEN v ELSE Put(v, getBasePath, Folder)

\* listBoards: the child folders of the base folder, "Whiteboards" left out
listBoards(v) ==
    {FileName(q) : q \in {c \in Children(v, getBasePath) :
                            v[c].kind = "folder" /\ FileName(c) # LEGACY_FOLDER}}

\* The characters createBoard replaces: \ / : * ? " < > |
UnsafeChars == {"\\", "/", ":", "*", "?", "\"", "<", ">", "|"}

\* Variant: the name is used as it was typed.
safeNameAsTyped(name) == name

\* name.replace(/[\\/:*?"<>|]/g, "_")
safeName(name) ==
    [i \in 1..Len(name) |-> IF name[i] \in UnsafeChars THEN "_" ELSE name[i]]

\* normalizePath(`${getBasePath()}/${boardName}`): an empty name gives the base folder
FolderOf(boardName) == IF boardName = <<>> THEN getBasePath ELSE BoardPath(boardName)

\* initializeConfig(folderPath) with its saveSettings
initializeConfig(s, folderPath) ==
    saveSettings([s EXCEPT !.boards = Put(@, folderPath, DefaultConfig)])

\* loadBoard's getConfig: a missing configuration is recorded in memory
Recorded(s, boardName) ==
    [s EXCEPT !.boards = Put(@, FolderOf(boardName), getConfig(@, FolderOf(boardName)))]

\* A view: dashboard or widget; its board list and current board as last
\* loaded; the board a delete was asked for, the number of boards in the
\* vault when it was asked (asked) and when deleteBoard was called (last).
ViewOf(kind, currentName) ==
    [kind |-> kind, pc |-> "unloaded", fileList |-> {}, currentName |-> currentName,
     target |-> <<>>, asked |-> 0, last |-> None, notice |-> "none"]

MaxOps == 3

CanAct(w) == w \in DOMAIN view.views /\ view.views[w].pc = "ready" /\ view.ops < MaxOps

Act(w, new) == view' = [view EXCEPT !.views[w] = new, !.ops = @ + 1]

Go(w, new) == view' = [view EXCEPT !.views[w] = new]

NotView == <<notes, save, io, loaded, codec, mig, calls, before>>

\* loadData of the dashboard container / render of the widget: the boards are
\* listed, board default is created when there is none, the board is loaded.
ViewLoad(w) ==
    /\ w \in DOMAIN view.views
    /\ view.views[w].pc = "unloaded"
    /\ LET vw == view.views[w]
           found == listBoards(vault)
           list == IF found = {} THEN {Default} ELSE found
           made == IF found = {}
                   THEN Put(EnsureBase(vault), BoardPath(Default), Folder)
                   ELSE EnsureBase(vault)
           s1 == IF found = {} THEN initializeConfig(settings, BoardPath(Default)) ELSE settings
       IN  /\ vault' = made
           /\ \E name \in (IF vw.kind = "dashboard"
                           THEN (IF vw.currentName \in list THEN {vw.currentName} ELSE list)
                           ELSE IF found = {} /\ vw.currentName = <<>> THEN {Default}
                           ELSE {vw.currentName}) :
                 /\ settings' = Recorded(s1, name)
                 /\ Go(w, [vw EXCEPT !.pc = "ready", !.fileList = list, !.currentName = name])
    /\ UNCHANGED <<metadataCache, trash, faults, NotView>>

\* dashboard, handleDeleteBoard(currentFile): refused with a notice when the
\* view's list has at most one board, else the confirmation modal opens.
HandleDeleteBoard(w) ==
    /\ CanAct(w)
    /\ view.views[w].kind = "dashboard"
    /\ IF Cardinality(view.views[w].fileList) <= 1
       THEN Act(w, [view.views[w] EXCEPT !.notice = "required"])
       ELSE Act(w, [view.views[w] EXCEPT !.pc = "confirm", !.target = view.views[w].currentName,
                                         !.asked = Cardinality(listBoards(vault))])
    /\ UNCHANGED <<vault, metadataCache, trash, settings, faults, NotView>>

\* deleteBoard(name) up to its await of vault.trash
DeleteBoardCall(w, name, asked) ==
    IF Exists(vault, FolderOf(name))
    THEN Go(w, [view.views[w] EXCEPT !.pc = "trash", !.target = name,
                    !.last = Some([name |-> name, atRequest |-> asked,
                                   atCall |-> Cardinality(listBoards(vault))])])
    ELSE Go(w, [view.views[w] EXCEPT !.pc = "ready", !.notice = "failed"])

\* dashboard, the modal confirmed: deleteBoard(nameToDelete)
ConfirmDelete(w) ==
    /\ w \in DOMAIN view.views
    /\ view.views[w].pc = "confirm"
    /\ DeleteBoardCall(w, view.views[w].target, view.views[w].asked)
    /\ UNCHANGED <<vault, metadataCache, trash, settings, faults, NotView>>

\* widget, onDeleteBoard(currentFile): deleteBoard(name) at once
OnDeleteBoard(w) ==
    /\ CanAct(w)
    /\ view.views[w].kind = "widget"
    /\ IF Exists(vault, FolderOf(view.views[w].currentName))
       THEN Act(w, [view.views[w] EXCEPT
                        !.pc = "trash", !.target = view.views[w].currentName,
                        !.last = Some([name |-> view.views[w].currentName,
                                       atRequest |-> Cardinality(listBoards(vault)),
                                       atCall |-> Cardinality(listBoards(vault))])])
       ELSE Act(w, [view.views[w] EXCEPT !.notice = "failed"])
    /\ UNCHANGED <<vault, metadataCache, trash, settings, faults, NotView>>

\* vault.trash(folder, true) resolved, deleteBoard returns true: the boards
\* are listed again and the view moves to another board.
DeleteSettled(w) ==
    /\ w \in DOMAIN view.views
    /\ view.views[w].pc = "trash"
    /\ Exists(vault, FolderOf(view.views[w].target))
    /\ LET vw == view.views[w]
           gone == {q \in DOMAIN vault : IsUnder(q, FolderOf(vw.target))}
           left == EnsureBase(Drop(vault, gone))
           latest == listBoards(left)
       IN  /\ vault' = left
           /\ metadataCache' = Drop(metadataCache, gone)
           /\ trash' = trash \cup gone
           /\ IF vw.kind = "dashboard"
              THEN /\ \E nextBoard \in (IF latest # {} THEN latest ELSE {Default}) :
                          Go(w, [vw EXCEPT !.currentName = nextBoard, !.notice = "deleted",
                                           !.pc = IF nextBoard # vw.currentName
                                                  THEN "unloaded" ELSE "ready"])
                   /\ UNCHANGED settings
              ELSE \E nextBoard \in (IF vw.target # vw.currentName THEN {vw.currentName}
                                     ELSE IF latest # {} THEN latest ELSE {<<>>}) :
                      /\ Go(w, [vw EXCEPT !.currentName = nextBoard, !.notice = "deleted",
                                          !.fileList = latest, !.pc = "ready"])
                      /\ settings' = Recorded(settings, nextBoard)
    /\ UNCHANGED <<faults, NotView>>

\* vault.trash rejected: deleteBoard catches it and returns false.
DeleteRejected(w) ==
    /\ w \in DOMAIN view.views
    /\ view.views[w].pc = "trash"
    /\ \/ ~Exists(vault, FolderOf(view.views[w].target)) /\ UNCHANGED faults
       \/ Exists(vault, FolderOf(view.views[w].target)) /\ faults > 0 /\ faults' = faults - 1
    /\ Go(w, [view.views[w] EXCEPT !.pc = "ready", !.notice = "failed"])
    /\ UNCHANGED <<vault, metadataCache, trash, settings, NotView>>

\* onSwitchBoard(newName)
SwitchBoard(w, newName) ==
    /\ CanAct(w)
    /\ newName \in view.views[w].fileList \ {view.views[w].currentName}
    /\ IF view.views[w].kind = "dashboard"
       THEN /\ Act(w, [view.views[w] EXCEPT !.currentName = newName, !.pc = "unloaded"])
            /\ UNCHANGED <<vault, settings>>
       ELSE /\ Act(w, [view.views[w] EXCEPT !.currentName = newName,
                                            !.fileList = listBoards(EnsureBase(vault))])
            /\ vault' = EnsureBase(vault)
            /\ settings' = Recorded(settings, newName)
    /\ UNCHANGED <<metadataCache, trash, faults, NotView>>

\* onCreateBoard(newName): createBoard, then the view moves to the new board.
CreateBoard(w, newName) ==
    /\ CanAct(w)
    /\ IF Exists(EnsureBase(vault), BoardPath(safeName(newName)))
       THEN /\ Act(w, [view.views[w] EXCEPT !.notice = "exists"])
            /\ vault' = EnsureBase(vault)
            /\ UNCHANGED settings
       ELSE /\ vault' = Put(EnsureBase(vault), BoardPath(safeName(newName)), Folder)
            /\ IF view.views[w].kind = "dashboard"
               THEN /\ Act(w, [view.views[w] EXCEPT !.currentName = newName, !.pc = "unloaded"])
                    /\ settings' = initializeConfig(settings, BoardPath(safeName(newName)))
               ELSE /\ Act(w, [view.views[w] EXCEPT !.currentName = newName,
                                                    !.fileList = listBoards(vault')])
                    /\ settings' = Recorded(initializeConfig(settings, BoardPath(safeName(newName))), newName)
    /\ UNCHANGED <<metadataCache, trash, faults, NotView>>

\* The vaults the views may find: the base folder with no board, board A, or
\* boards A and B, each board with one note file.
BoardVaults ==
    {VaultOf(<< <<getBasePath, Folder>> >>
             \o (IF BoardA \in bs
                 THEN << <<BoardPath(BoardA), Folder>>, <<FA, Stored(NewNote(<<"9">>))>> >>
                 ELSE <<>>)
             \o (IF BoardB \in bs
                 THEN << <<BoardPath(BoardB), Folder>>, <<F1, Stored(NewNote(Id1))>> >>
                 ELSE <<>>)) :
        bs \in {{}, {BoardA}, {BoardA, BoardB}}}

InitView ==
    /\ vault \in BoardVaults
    /\ metadataCache = IndexOf(vault)
    /\ trash = {}
    /\ settings = DEFAULT_SETTINGS
    /\ notes = <<>>
    /\ save = SaveIdle(BoardB)
    /\ io = <<>>
    /\ faults \in 0..MaxFaults
    /\ loaded = None
    /\ codec = CodecIdle
    /\ mig = MigIdle
    /\ view \in {[views |-> <<ViewOf("dashboard", BoardA), ViewOf("widget", n)>>, ops |-> 0] :
                    n \in {BoardA, Default}}
    /\ calls = <<>>
    /\ before = [vault |-> vault, cache |-> metadataCache, notes |-> notes]

NextView ==
    \/ \E w \in DOMAIN view.views : ViewLoad(w)
    \/ \E w \in DOMAIN view.views : HandleDeleteBoard(w)
    \/ \E w \in DOMAIN view.views : ConfirmDelete(w)
    \/ \E w \in DOMAIN view.views : OnDeleteBoard(w)
    \/ \E w \in DOMAIN view.views : DeleteSettled(w)
    \/ \E w \in DOMAIN view.views : DeleteRejected(w)
    \/ \E w \in DOMAIN view.views, n \in {BoardA, BoardB, Default} : SwitchBoard(w, n)
    \/ \E w \in DOMAIN view.views, n \in {BoardA, BoardB} : CreateBoard(w, n)

SpecView == InitView /\ [][NextView]_vars

\* C10: deleteBoard is called only for a delete request made while more than
\* one board remains in the vault.
C10_LastBoardDeleteRejected ==
    \A w \in DOMAIN view.views :
        view.views[w].last # None => view.views[w].last[1].atRequest > 1

\* C10 for the dashboard's call site as the dashboard sees it: it calls
\* deleteBoard only when its own board list held more than one board.
C10_DashboardGuard ==
    \A w \in DOMAIN view.views :
        (view.views[w].kind = "dashboard" /\ view.views[w].pc = "trash") =>
            Cardinality(view.views[w].fileList) > 1

----------------------------------------------------------------------------
(* The dirty check within a save *)

\* Note k is as the last save left it: its target is a file that holds the
\* note's encoding and whose index entry shows no compared field differing.
Unchanged(k) ==
    /\ IsTFile(before.vault, TargetOf(k))
    /\ before.vault[TargetOf(k)].text = constructFileContent(before.notes[k])
    /\ ~hasMetadataChanged(getFileCache(before.cache, TargetOf(k)), before.notes[k])

\* C11: when every note of the saved list is unchanged and the index shows
\* no field difference for any of them, the save issues no vault.read.
C11_NoFullContentRead ==
    (Len(notes) > 0 /\ \A k \in DOMAIN notes : Unchanged(k)) =>
        \A k \in DOMAIN io : io[k].op # "read"

\* C11, what the code does instead: an unchanged note is read exactly when
\* the index shows no difference, and is never written.
C11_ReadOncePerCleanNote ==
    \A k \in DOMAIN notes :
        (Unchanged(k) /\ io[k].op = "done" /\ ~io[k].failed) =>
            /\ io[k].result = Some(TargetOf(k))
            /\ TargetOf(k) \notin save.wrote

----------------------------------------------------------------------------
(* The board manager on its own: createBoard and deleteBoard *)

MaxCalls == 2

NotCalls == <<notes, save, io, loaded, codec, mig, view, before>>

\* "none", "file" or "folder": what getAbstractFileByPath(path) finds
KindAt(v, path) == IF Exists(v, path) THEN v[path].kind ELSE "none"

\* One invocation: the operation it awaits (pc), the value it returned (ret),
\* and what it found at its path when it looked (found).
CallOf(op, name, path, pc, ret, found) ==
    [op |-> op, name |-> name, path |-> path, pc |-> pc, ret |-> ret, found |-> found]

\* Variant: createFolder is issued whatever is at the path.
CreateBoardUnchecked(v, name) ==
    CallOf("createBoard", name, BoardPath(safeName(name)), "createFolder", None,
           KindAt(v, BoardPath(safeName(name))))

\* createBoard after ensureBaseFolder: an entry at the path ends the call with
\* false, else createFolder is issued.
CreateBoardCheck(v, name) ==
    LET folderPath == BoardPath(safeName(name))
    IN  IF Exists(v, folderPath)
        THEN CallOf("createBoard", name, folderPath, "returned", Some(FALSE), KindAt(v, folderPath))
        ELSE CallOf("createBoard", name, folderPath, "createFolder", None, "none")

\* createBoard(name) up to its first await
CreateBoardCall(name) ==
    /\ Len(calls) < MaxCalls
    /\ calls' = Append(calls,
                    IF Exists(vault, getBasePath)
                    THEN CreateBoardCheck(vault, name)
                    ELSE CallOf("createBoard", name, BoardPath(safeName(name)),
                                "ensureBaseFolder", None, "unseen"))
    /\ UNCHANGED <<vault, metadataCache, trash, settings, faults, NotCalls>>

\* ensureBaseFolder's createFolder resolved
BaseFolderCreated(c) ==
    /\ calls[c].pc = "ensureBaseFolder"
    /\ ~Exists(vault, getBasePath)
    /\ MakeFolder(getBasePath)
    /\ calls' = [calls EXCEPT ![c] = CreateBoardCheck(vault', calls[c].name)]
    /\ UNCHANGED <<trash, settings, faults, NotCalls>>

\* createFolder(folderPath) resolved: initializeConfig stores the default
\* configuration in memory and awaits saveSettings.
CreateFolderSettled(c) ==
    /\ calls[c].pc = "createFolder"
    /\ ~Exists(vault, calls[c].path)
    /\ vault' = Put(EnsureBase(vault), calls[c].path, Folder)
    /\ settings' = [settings EXCEPT !.boards = Put(@, calls[c].path, DefaultConfig)]
    /\ calls' = [calls EXCEPT ![c].pc = "initializeConfig"]
    /\ UNCHANGED <<metadataCache, trash, faults, NotCalls>>

\* saveSettings resolved: createBoard returns true
CreateConfigSaved(c) ==
    /\ calls[c].pc = "initializeConfig"
    /\ settings' = saveSettings(settings)
    /\ calls' = [calls EXCEPT ![c].pc = "returned", ![c].ret = Some(TRUE)]
    /\ UNCHANGED <<vault, metadataCache, trash, faults, NotCalls>>

\* What the host refuses: a folder where an entry is, the trash of an entry
\* that is gone.
CallRefused(c) ==
    CASE calls[c].pc = "ensureBaseFolder" -> Exists(vault, getBasePath)
      [] calls[c].pc = "createFolder" -> Exists(vault, calls[c].path)
      [] calls[c].pc = "trash" -> ~Exists(vault, calls[c].path)
      [] OTHER -> FALSE

\* An awaited operation rejected: ensureBaseFolder is awaited outside the try
\* block, so createBoard rejects; createFolder, saveSettings and trash end in
\* the catch block, which returns false.
CallRejected(c) ==
    /\ calls[c].pc \in {"ensureBaseFolder", "createFolder", "initializeConfig", "trash"}
    /\ \/ CallRefused(c) /\ UNCHANGED faults
       \/ ~CallRefused(c) /\ faults > 0 /\ faults' = faults - 1
    /\ calls' = [calls EXCEPT ![c] =
                    IF calls[c].pc = "ensureBaseFolder"
                    THEN [@ EXCEPT !.pc = "threw"]
                    ELSE [@ EXCEPT !.pc = "returned", !.ret = Some(FALSE)]]
    /\ UNCHANGED <<vault, metadataCache, trash, settings, NotCalls>>

\* deleteBoard(boardName) up to its await of vault.trash
DeleteBoard(boardName) ==
    /\ Len(calls) < MaxCalls
    /\ LET folderPath == FolderOf(boardName)
       IN  calls' = Append(calls,
                IF ~Exists(vault, folderPath)
                THEN CallOf("deleteBoard", boardName, folderPath, "returned", Some(FALSE), "none")
                ELSE CallOf("deleteBoard", boardName, folderPath, "trash", None,
                            KindAt(vault, folderPath)))
    /\ UNCHANGED <<vault, metadataCache, trash, settings, faults, NotCalls>>

\* vault.trash(folder, true) resolved: deleteBoard returns true
DeleteTrashed(c) ==
    /\ calls[c].pc = "trash"
    /\ Exists(vault, calls[c].path)
    /\ TrashEntry(calls[c].path)
    /\ calls' = [calls EXCEPT ![c].pc = "returned", ![c].ret = Some(TRUE)]
    /\ UNCHANGED <<settings, faults, NotCalls>>

ColonName == <<"My Board", ":", "Test">>

\* A name with every replaced character in it
SymbolsName == <<"a", "\\", "/", "*", "?", "\"", "<", ">", "|", "b">>

TodoName == <<"todo", ".", "md">>

\* A configuration the user has changed
GridConfig == [wallStyle |-> <<"grid">>, isFullWidth |-> Some(TRUE), zoom |-> Some(20)]

\* The vaults a call may find: no base folder; or the base folder with board
\* A, the user's file todo.md and, or not, the directory My Board_Test.
ManagerVaults ==
    {VaultOf(<<>>)} \cup
    {VaultOf(<< <<getBasePath, Folder>>, <<BoardPath(BoardA), Folder>>,
                <<FA, Stored(NewNote(<<"9">>))>>, <<BoardPath(TodoName), UserFile>> >>
             \o Entry(BoardPath(safeName(ColonName)), e)) :
        e \in {None, Some(Folder)}}

\* Every board directory of the vault has the changed configuration stored.
StoredConfigs(v) ==
    LET held == [p \in {BoardPath(n) : n \in listBoards(v)} |-> GridConfig]
    IN  [boards |-> held, migratedFiles |-> <<>>,
         data |-> [boards |-> held, migratedFiles |-> <<>>]]

InitManager ==
    /\ vault \in ManagerVaults
    /\ metadataCache = IndexOf(vault)
    /\ trash = {}
    /\ settings = IF vault = VaultOf(<<>>) THEN DEFAULT_SETTINGS ELSE StoredConfigs(vault)
    /\ notes = <<>>
    /\ save = SaveIdle(BoardB)
    /\ io = <<>>
    /\ faults \in 0..MaxFaults
    /\ loaded = None
    /\ codec = CodecIdle
    /\ mig = MigIdle
    /\ view = ViewIdle
    /\ calls = <<>>
    /\ before = [vault |-> vault, cache |-> metadataCache, notes |-> notes]

NextManager ==
    \/ \E name \in {BoardA, ColonName, SymbolsName, TodoName} : CreateBoardCall(name)
    \/ \E c \in DOMAIN calls : BaseFolderCreated(c)
    \/ \E c \in DOMAIN calls : CreateFolderSettled(c)
    \/ \E c \in DOMAIN calls : CreateConfigSaved(c)
    \/ \E c \in DOMAIN calls : CallRejected(c)
    \/ \E name \in {BoardA, BoardB, TodoName, <<>>} : DeleteBoard(name)
    \/ \E c \in DOMAIN calls : DeleteTrashed(c)

SpecManager == InitManager /\ [][NextManager]_vars

----------------------------------------------------------------------------
(* Claims about createBoard and deleteBoard *)

\* Call c looks at its path in this step.
Checks(c) ==
    /\ c \in DOMAIN calls'
    /\ calls'[c].op = "createBoard"
    /\ calls'[c].found # "unseen"
    /\ c \in DOMAIN calls => calls[c].found = "unseen"

\* Call c returns in this step.
Returns(c) ==
    /\ c \in DOMAIN calls'
    /\ calls'[c].pc = "returned"
    /\ c \in DOMAIN calls => calls[c].pc # "returned"

\* C12: a createBoard that finds an entry at the sanitized path returns false
\* at once, issuing no file operation, and the step leaves the vault, the
\* index, the trash and the settings (in memory and stored) as they were.
C12_CreateExistingAborts ==
    [][\A c \in 1..MaxCalls :
          (Checks(c) /\ calls'[c].found \in {"file", "folder"}) =>
              /\ calls'[c].pc = "returned" /\ calls'[c].ret = Some(FALSE)
              /\ vault' = vault /\ metadataCache' = metadataCache
              /\ trash' = trash /\ settings' = settings]_vars

C12_Witness ==
    \E c \in DOMAIN calls :
        /\ calls[c] = CallOf("createBoard", ColonName, BoardPath(<<"My Board", "_", "Test">>),
                             "returned", Some(FALSE), "folder")
        /\ settings.data.boards[calls[c].path] = GridConfig
        /\ IsTFolder(vault, calls[c].path)

\* dir is name with each of \ / : * ? " < > | replaced by an underscore.
IsSanitized(name, dir) ==
    /\ Len(dir) = Len(name)
    /\ \A i \in 1..Len(name) :
          dir[i] = IF name[i] \in {"\\", "/", ":", "*", "?", "\"", "<", ">", "|"}
                   THEN "_" ELSE name[i]

\* C14: a createBoard that finds no entry at the sanitized path issues
\* createFolder for <base>/<sanitized name> (My Board:Test gives My Board_Test);
\* when that resolves the directory exists and the default configuration is
\* held under its path; when the call returns true the default configuration
\* is stored under that path; and it returns false only when one of its
\* operations was rejected.
C14_CreateBoard ==
    [][\A c \in 1..MaxCalls :
          /\ (Checks(c) /\ calls'[c].found = "none") =>
                /\ calls'[c].pc = "createFolder"
                /\ Parent(calls'[c].path) = getBasePath
                /\ IsSanitized(calls'[c].name, FileName(calls'[c].path))
                /\ calls'[c].name = ColonName =>
                      FileName(calls'[c].path) = <<"My Board", "_", "Test">>
          /\ (c \in DOMAIN calls /\ calls[c].pc = "createFolder"
                /\ calls'[c].pc = "initializeConfig") =>
                /\ IsTFolder(vault', calls[c].path)
                /\ settings'.boards[calls[c].path] = DefaultConfig
          /\ (c \in DOMAIN calls /\ calls[c].op = "createBoard" /\ Returns(c)
                /\ calls[c].found = "none") =>
                IF calls'[c].ret = Some(TRUE)
                THEN /\ calls[c].pc = "initializeConfig"
                     /\ settings'.data.boards[calls[c].path] = DefaultConfig
                ELSE CallRefused(c) \/ faults' < faults]_vars

C14_Witness ==
    \E c \in DOMAIN calls :
        /\ calls[c] = CallOf("createBoard", ColonName, BoardPath(<<"My Board", "_", "Test">>),
                             "returned", Some(TRUE), "none")
        /\ IsTFolder(vault, calls[c].path)
        /\ settings.data.boards[calls[c].path] =
              [wallStyle |-> <<"dots">>, isFullWidth |-> Some(FALSE), zoom |-> Some(10)]


\* The vault.trash awaited by call c resolves in this step.
TrashSucceeds(c) ==
    /\ c \in DOMAIN calls
    /\ calls[c].pc = "trash"
    /\ Exists(vault, calls[c].path)
    /\ ~Exists(vault', calls[c].path)
    /\ calls[c].path \in trash'

\* C16: deleteBoard never throws; it returns true exactly when a board's
\* directory (a folder directly under the base folder) was at its path and
\* the move to trash succeeded; a return of false leaves the vault and the
\* trash as they were.
C16_DeleteBoardResult ==
    [][\A c \in 1..MaxCalls :
          (c \in DOMAIN calls' /\ calls'[c].op = "deleteBoard") =>
              /\ calls'[c].pc # "threw"
              /\ Returns(c) =>
                    /\ calls'[c].ret = Some(TRUE) <=>
                          /\ calls'[c].found = "folder"
                          /\ Parent(calls'[c].path) = getBasePath
                          /\ TrashSucceeds(c)
                    /\ calls'[c].ret = Some(FALSE) =>
                          vault' = vault /\ trash' = trash]_vars

\* C16 with "entry" for "the board's directory": the result is true exactly
\* when some entry, file or folder, was at the path and its trash succeeded.
C16_DeleteEntryResult ==
    [][\A c \in 1..MaxCalls :
          (c \in DOMAIN calls' /\ calls'[c].op = "deleteBoard") =>
              /\ calls'[c].pc # "threw"
              /\ Returns(c) =>
                    /\ calls'[c].ret = Some(TRUE) <=>
                          (calls'[c].found \in {"file", "folder"} /\ TrashSucceeds(c))
                    /\ calls'[c].ret = Some(FALSE) =>
                          vault' = vault /\ trash' = trash]_vars

----------------------------------------------------------------------------
(* The result of a migration *)

\* Legacy file f was migrated to the end (renamed) in a pass in which none
\* of its notes failed to be written.
Succeeded(f) ==
    \E e \in mig.log :
        /\ e.file = f /\ e.op = "renamed"
        /\ ~\E e2 \in mig.log : e2.file = f /\ e2.pass = e.pass /\ e2.op = "noteFailed"

\* The value of header line k of a note file's text
HeaderValue(text, k) ==
    LET at == {i \in 1..Len(text.fm) : text.fm[i].k = k}
    IN  IF at = {} THEN None ELSE Some(text.fm[CHOOSE i \in at : TRUE].v)

\* The wall style a legacy value carries: its wallStyle member when it is an
\* object that has a non-empty one, else dots.
WallStyleOf(parsed) ==
    IF parsed.t = "obj" /\ <<"wallStyle">> \in DOMAIN parsed.members
       /\ parsed.members[<<"wallStyle">>].s # <<>>
    THEN parsed.members[<<"wallStyle">>].s
    ELSE <<"dots">>

\* C13: after a successful migration of <name>.json the directory <name>
\* exists, its stored configuration is the default one with the wall style
\* of the legacy content (dots for a bare array) and nothing else of that
\* content, and the directory holds one note file per legacy note, Note
\* <id>.md, whose header has x and y as rounded integers (Ideas.json with
\* x 10.6, y 5.2 and wallStyle grid: wall style grid, x: 11, y: 5).
C13_MigrationResult ==
    \A f \in LegacyFiles :
        Succeeded(f) =>
            LET parsed == JSONParse(before.vault[f].text.rest).v
                dir == BoardPath(Basename(FileName(f)))
                items == IF parsed.t = "arr" THEN parsed.items
                         ELSE parsed.members[<<"notes">>].items
            IN  /\ IsTFolder(vault, dir)
                /\ dir \in DOMAIN settings.data.boards
                /\ settings.data.boards[dir] =
                      [wallStyle |-> WallStyleOf(parsed), isFullWidth |-> Some(FALSE),
                       zoom |-> Some(10)]
                /\ Cardinality(MdFiles(vault, dir)) = Len(items)
                /\ \A i \in 1..Len(items) :
                      LET p == NotePath(dir, items[i].members[<<"id">>].s)
                      IN  /\ IsTFile(vault, p)
                          /\ HeaderValue(vault[p].text, "x")
                                = Some(NumText(MathRound(items[i].members[<<"x">>].n)))
                          /\ HeaderValue(vault[p].text, "y")
                                = Some(NumText(MathRound(items[i].members[<<"y">>].n)))
                /\ (FileName(f) = JsonName(Ideas) /\ parsed.t = "obj") =>
                      /\ settings.data.boards[dir].wallStyle = <<"grid">>
                      /\ HeaderValue(vault[IdeasNote1].text, "x") = Some(<<"1", "1">>)
                      /\ HeaderValue(vault[IdeasNote1].text, "y") = Some(<<"5">>)

C13_Witness ==
    \E f \in LegacyFiles :
        /\ Succeeded(f)
        /\ FileName(f) = JsonName(Ideas)
        /\ JSONParse(before.vault[f].text.rest).v.t = "obj"
        /\ settings.data.boards[BoardPath(Ideas)].wallStyle = <<"grid">>
        /\ HeaderValue(vault[IdeasNote1].text, "x") = Some(<<"1", "1">>)
        /\ Cardinality(MdFiles(vault, BoardPath(Ideas))) = 2

----------------------------------------------------------------------------
(* The serializer from the text: decoded, then encoded again *)

\* The headers of two texts hold the same keys with the same values, x and
\* y being compared after rounding to the nearest integer.
SameHeader(t1, t2) ==
    LET h1 == ParseFrontmatter(t1)
        h2 == ParseFrontmatter(t2)
    IN  /\ h1 # None /\ h2 # None
        /\ DOMAIN h1[1] = DOMAIN h2[1]
        /\ \A k \in DOMAIN h1[1] :
              IF k \in {"x", "y"} THEN MathRound(h1[1][k]) = MathRound(h2[1][k])
              ELSE h1[1][k] = h2[1][k]

\* C15: the encoding of the decoding of a wire-format text has the header
\* values of the text, up to rounding of x and y, and, after the blank
\* separator line, the very body of the text.
C15_EncodeDecode ==
    codec.pc = "reencoded" =>
        /\ SameHeader(codec.text, codec.again)
        /\ codec.again.rest = codec.text.rest

\* C15 as the code has it: the header values are kept up to rounding, and
\* the body comes back trimmed of the white space at its two ends.
C15_BodyTrimmed ==
    codec.pc = "reencoded" =>
        /\ SameHeader(codec.text, codec.again)
        /\ codec.again.rest = <<"\n">> \o Trim(codec.text.rest)

----------------------------------------------------------------------------
(* Failed writes and the orphan cleanup *)

\* The write of note k was rejected (its vault.read or vault.modify) and the
\* file it was for is a file of the board directory the save found there.
FailedOnBackingFile(k) ==
    /\ io[k].op = "done" /\ io[k].failed
    /\ io[k].path = TargetOf(k)
    /\ IsTFile(before.vault, TargetOf(k))
    /\ TargetOf(k) \in Children(before.vault, BoardDir)

\* C17: the backing file of a note whose write failed is not handed to
\* vault.trash by the same save, and is not in the trash.
C17_FailedWriteNotTrashed ==
    \A k \in DOMAIN notes :
        FailedOnBackingFile(k) =>
            TargetOf(k) \notin save.trashIssued /\ TargetOf(k) \notin trash

\* C17, what the code does: the path of a failed write is not among the
\* returned paths, so its file is selected like any orphan when its header
\* carries the marker.
C17_FailedWriteIsOrphan ==
    \A k \in DOMAIN notes :
        (FailedOnBackingFile(k) /\ save.pc \in {"trashing", "done"}
            /\ HasMarker(getFileCache(before.cache, TargetOf(k)))
            /\ \A j \in DOMAIN notes : j # k => TargetOf(j) # TargetOf(k)) =>
            TargetOf(k) \in save.trashIssued

----------------------------------------------------------------------------
(* A view with its whiteboard component: edits, debounced saves and the
   switch to another board *)

\* The whiteboard component of a view: its notes state (useState of
\* initialNotes, set at mount only), the board those notes were loaded from
\* (origin, history), and the debounced onSave calls still to fire.  A timer
\* of the dashboard carries the board name its onSave closure captured
\* (bound); the widget's onSave reads this.currentBoardName when it fires.
BoardView(kind, currentName, shown) ==
    [kind |-> kind, pc |-> "ready", currentName |-> currentName,
     shown |-> shown, origin |-> currentName, timers |-> {}]

\* loadBoard(name).notes in one of the orders the host may list the files
Listings(name) == Orderings(LoadedNotes(vault, metadataCache, name))

CanUse(w) == w \in DOMAIN view.views /\ view.ops < MaxOps

\* The edits of a user: the first note dragged, a note added, the first
\* note deleted.
Edits(shown) ==
    (IF shown = <<>> THEN {} ELSE {[shown EXCEPT ![1].x = 34], Tail(shown)})
        \cup (IF \A i \in DOMAIN shown : shown[i].id # Id2
              THEN {Append(shown, NewNote(Id2))} ELSE {})

\* setNotesAndSave(updater): the state is replaced and debouncedSave called
\* with the new list.
SetNotesAndSave(w) ==
    /\ CanUse(w)
    /\ \E nextNotes \in Edits(view.views[w].shown) :
          LET vw == view.views[w]
              timer == [notes |-> nextNotes, origin |-> vw.origin,
                        bound |-> IF vw.kind = "dashboard" THEN Some(vw.currentName) ELSE None]
          IN  view' = [view EXCEPT !.ops = @ + 1,
                                   !.views[w].shown = nextNotes,
                                   !.views[w].timers =
                                       {t \in @ : t.origin # timer.origin \/ t.bound # timer.bound}
                                           \cup {timer}]
    /\ UNCHANGED <<vault, metadataCache, trash, settings, faults, NotView>>

\* onSwitchBoard(newName): the dashboard sets currentName and its effect
\* calls loadData; the widget assigns this.currentBoardName and awaits
\* listBoards and refreshReact.  The mounted component stays as it is.
OnSwitchBoard(w, newName) ==
    /\ CanUse(w)
    /\ view.views[w].pc = "ready"
    /\ newName # view.views[w].currentName
    /\ view' = [view EXCEPT !.ops = @ + 1,
                            !.views[w].currentName = newName,
                            !.views[w].pc = "loading"]
    /\ UNCHANGED <<vault, metadataCache, trash, settings, faults, NotView>>

\* loadBoard resolved.  The widget renders the component with key =
\* currentBoardName, which mounts a new one with the loaded notes; the
\* dashboard calls setData, which hands new initialNotes to the component it
\* already has.
BoardLoaded(w) ==
    /\ w \in DOMAIN view.views
    /\ view.views[w].pc = "loading"
    /\ IF view.views[w].kind = "widget"
       THEN \E list \in Listings(view.views[w].currentName) :
               view' = [view EXCEPT !.views[w].pc = "ready",
                                    !.views[w].shown = list,
                                    !.views[w].origin = view.views[w].currentName]
       ELSE view' = [view EXCEPT !.views[w].pc = "ready"]
    /\ settings' = Recorded(settings, view.views[w].currentName)
    /\ UNCHANGED <<vault, metadataCache, trash, faults, NotView>>

\* The dashboard's updateMarkdownCodeBlock has rewritten the code block and
\* the host renders it anew: a new container mounts and loads the board.
CodeBlockRendered(w) ==
    /\ w \in DOMAIN view.views
    /\ view.views[w].kind = "dashboard"
    /\ view.views[w].pc = "ready"
    /\ view.views[w].origin # view.views[w].currentName
    /\ \E list \in Listings(view.views[w].currentName) :
          view' = [view EXCEPT !.views[w].shown = list,
                               !.views[w].origin = view.views[w].currentName]
    /\ settings' = Recorded(settings, view.views[w].currentName)
    /\ UNCHANGED <<vault, metadataCache, trash, faults, NotView>>

\* A debounced call fires: onSave(data) calls saveBoard(name, data), name
\* being the captured currentName (dashboard) or this.currentBoardName as it
\* is now (widget).  One saveBoard runs at a time.
DebouncedSaveFires(w) ==
    /\ w \in DOMAIN view.views
    /\ save.pc \in {"off", "done"}
    /\ \E t \in view.views[w].timers :
          LET name == IF t.bound # None THEN t.bound[1] ELSE view.views[w].currentName
          IN  /\ save' = SaveIdle(name)
              /\ notes' = t.notes
              /\ io' = [k \in 1..Len(t.notes) |-> IoIdle]
              /\ before' = [vault |-> vault, cache |-> metadataCache, notes |-> t.notes,
                            origin |-> t.origin]
              /\ view' = [view EXCEPT !.views[w].timers = @ \ {t}]
    /\ UNCHANGED <<vault, metadataCache, trash, settings, faults, loaded, codec, mig, calls>>

F9 == NotePath(BoardPath(BoardB), <<"9">>)

\* Boards A and B, each with a note file; B's note has the identifier of
\* A's note or another one.
SwitchVaults ==
    {VaultOf(<< <<getBasePath, Folder>>, <<BoardPath(BoardA), Folder>>,
                <<FA, Stored(NewNote(<<"9">>))>>, <<BoardPath(BoardB), Folder>>, b >>) :
        b \in {<<F1, Stored(NewNote(Id1))>>, <<F9, Stored(NewNote(<<"9">>))>>}}

InitSwitch ==
    /\ vault \in SwitchVaults
    /\ metadataCache = IndexOf(vault)
    /\ trash = {}
    /\ settings = DEFAULT_SETTINGS
    /\ notes = <<>>
    /\ save = [SaveIdle(BoardA) EXCEPT !.pc = "off"]
    /\ io = <<>>
    /\ faults = 0
    /\ loaded = None
    /\ codec = CodecIdle
    /\ mig = MigIdle
    /\ \E kind \in {"dashboard", "widget"} : \E list \in Listings(BoardA) :
          view = [views |-> <<BoardView(kind, BoardA, list)>>, ops |-> 0]
    /\ calls = <<>>
    /\ before = [vault |-> vault, cache |-> metadataCache, notes |-> notes, origin |-> BoardA]

NextSwitch ==
    \/ \E w \in DOMAIN view.views : SetNotesAndSave(w)
    \/ \E w \in DOMAIN view.views, n \in {BoardA, BoardB} : OnSwitchBoard(w, n)
    \/ \E w \in DOMAIN view.views : BoardLoaded(w)
    \/ \E w \in DOMAIN view.views : CodeBlockRendered(w)
    \/ \E w \in DOMAIN view.views : DebouncedSaveFires(w)
    \/ SaveBoardCall
    \/ SaveConfigSettled
    \/ \E k \in DOMAIN io : ModifySettled(k)
    \/ \E k \in DOMAIN io : ReadSettled(k)
    \/ \E k \in DOMAIN io : CreateSettled(k)
    \/ SaveAdvance
    \/ \E p \in save.trashing : TrashSettled(p)

SpecSwitch == InitSwitch /\ [][NextSwitch]_vars

\* C18: every saveBoard a view issues is for the board its note list was
\* loaded from or created on; so no list of board A is written, and no file
\* trashed, under the name of board B.
C18_SavesCarryOwnBoard ==
    save.pc # "off" => before.origin = save.board

\* C18 for the dashboard alone
C18_DashboardSavesOwnBoard ==
    (save.pc # "off" /\ view.views[1].kind = "dashboard") => before.origin = save.board

\* What the save of A's list under B's name does: B's own note file is in
\* the trash.
C18_ForeignSaveTrashes ==
    /\ save.pc = "done"
    /\ before.origin = BoardA /\ save.board = BoardB
    /\ \E p \in trash : Parent(p) = BoardPath(BoardB)

----------------------------------------------------------------------------
(* The path saveNote writes *)

\* The saveNote of note k has settled without a rejected file operation.
Settled(k) == io[k].op = "done" /\ ~io[k].failed

Locator(k) == before.notes[k].filepath

Synthesized(k) == BoardDir \o << <<"Note ">> \o before.notes[k].id \o <<".", "md">> >>

----------------------------------------------------------------------------
(* The dirty check of saveNote, step by step *)

\* The header fields the check compares, as the note has them
Compared(note) ==
    [id |-> note.id, x |-> MathRound(note.x), y |-> MathRound(note.y),
     rotation |-> note.rotation, color |-> note.color, size |-> note.size,
     shape |-> note.shape, style |-> note.style, bgStyle |-> note.bgStyle,
     pinType |-> note.pinType, pinPos |-> note.pinPos]

\* The index has no header for the file at path, or a compared field of it
\* differs from the note's.
IndexDiffers(mc, path, note) ==
    \/ path \notin DOMAIN mc
    \/ mc[path] = None
    \/ \E f \in DOMAIN Compared(note) :
          f \notin DOMAIN mc[path][1] \/ mc[path][1][f] # Compared(note)[f]

\* C20: for a note whose target is a file, saveNote issues vault.modify at
\* once when the index has no entry or shows a compared field differing,
\* and vault.read when it shows none; a read that resolves is followed by
\* vault.modify exactly when the text read differs from the encoding, and
\* else the call returns leaving the vault as it is; no read follows a
\* modify, and no second read the first.
C20_DirtyCheck ==
    [][\A k \in DOMAIN io :
          /\ (io[k].op \in {"idle", "mkdir"} /\ io'[k].op # io[k].op
                /\ IsTFile(vault', io'[k].path)) =>
                /\ io'[k].op \in {"read", "modify"}
                /\ io'[k].op = "modify" <=> IndexDiffers(metadataCache', io'[k].path, notes[k])
          /\ (io[k].op = "read" /\ io'[k] # io[k] /\ ~io'[k].failed) =>
                IF vault[io[k].path].text # constructFileContent(notes[k])
                THEN io'[k].op = "modify" /\ io'[k].path = io[k].path
                ELSE io'[k].op = "done" /\ vault' = vault
          /\ (io[k].op = "modify" /\ io'[k] # io[k] /\ ~io'[k].failed) =>
                /\ io'[k].op = "done"
                /\ vault'[io[k].path].text = constructFileContent(notes[k])]_vars

C20_Witness ==
    /\ \E k \in DOMAIN io :
          /\ io[k].op = "read"
          /\ ~IndexDiffers(metadataCache, io[k].path, notes[k])
          /\ vault[io[k].path].text # constructFileContent(notes[k])
    /\ \E k \in DOMAIN io :
          /\ io[k].op = "modify"
          /\ IndexDiffers(metadataCache, io[k].path, notes[k])
          /\ metadataCache[io[k].path] # None

----------------------------------------------------------------------------
(* The same list saved twice: saveBoard, and once it has settled saveBoard
   again with the note objects as the first call left them *)

\* The second saveBoard(boardName, data) up to the await of saveSettings;
\* the history keeps how the first call ended.
SaveBoardAgain ==
    /\ save.pc = "done"
    /\ before.first = None
    /\ settings' = [settings EXCEPT !.boards =
                        updateConfig(@, BoardPath(save.board),
                                     [wallStyle |-> save.data.wallStyle,
                                      isFullWidth |-> save.data.isFullWidth])]
    /\ save' = [SaveIdle(save.board) EXCEPT !.pc = "config"]
    /\ io' = [k \in 1..Len(notes) |-> IoIdle]
    /\ before' = [vault |-> vault, cache |-> metadataCache, notes |-> notes,
                  first |-> Some([clean |-> (\A k \in DOMAIN io : ~io[k].failed)
                                               /\ save.trashFailed = {},
                                  faults |-> faults])]
    /\ UNCHANGED <<vault, metadataCache, trash, notes, faults, loaded,
                   codec, mig, view, calls>>

InitTwice ==
    /\ vault \in Vaults
    /\ metadataCache = IndexOf(vault)
    /\ trash = {}
    /\ settings = DEFAULT_SETTINGS
    /\ notes \in NoteLists
    /\ save = SaveIdle(BoardB)
    /\ io = [k \in 1..Len(notes) |-> IoIdle]
    /\ faults \in 0..MaxFaults
    /\ loaded = None
    /\ codec = CodecIdle
    /\ mig = MigIdle
    /\ view = ViewIdle
    /\ calls = <<>>
    /\ before = [vault |-> vault, cache |-> metadataCache, notes |-> notes, first |-> None]

NextTwice ==
    \/ SaveBoardCall
    \/ SaveConfigSettled
    \/ SaveConfigRejected
    \/ \E k \in DOMAIN io : FolderCreated(k)
    \/ \E k \in DOMAIN io : ModifySettled(k)
    \/ \E k \in DOMAIN io : ReadSettled(k)
    \/ \E k \in DOMAIN io : CreateSettled(k)
    \/ \E k \in DOMAIN io : WriteRejected(k)
    \/ SaveAdvance
    \/ \E p \in save.trashing : TrashSettled(p)
    \/ \E p \in save.trashing : TrashRejected(p)
    \/ SaveBoardAgain

SpecTwice == InitTwice /\ [][NextTwice]_vars

Second == before.first # None

\* The save in progress has issued no createFolder, create, modify or trash.
IssuesNothing ==
    /\ \A k \in DOMAIN io : io[k].op \notin {"mkdir", "create", "modify"}
    /\ save.wrote = {}
    /\ save.trashIssued = {}

\* C21: the second save of the list, no host fault having been injected,
\* issues no create, no modify and no move-to-trash.
C21_SecondSaveIdle ==
    (Second /\ faults = MaxFaults) => IssuesNothing

\* C21 where no operation of either save was rejected: the second save reads
\* at most and issues no create, no modify and no move-to-trash.
C21_SecondSaveIdleAfterCleanSave ==
    (Second /\ before.first[1].clean /\ NoFailure) => IssuesNothing

C21_CleanSecondSaveDone ==
    /\ Second /\ before.first[1].clean /\ NoFailure /\ save.pc = "done"
    /\ Len(notes) = 2
    /\ \E k \in DOMAIN io : before.notes[k].filepath # <<>> /\ io[k].result # None

----------------------------------------------------------------------------
(* The frame of a save *)

\* C22: the save creates, modifies and trashes only files of its board's
\* directory, and once it has settled the locator of every note it saved is
\* a path of that directory.
C22_SaveStaysInBoard ==
    save.pc # "off" =>
        /\ \A p \in save.wrote \cup save.trashIssued : Parent(p) = BoardDir
        /\ save.pc = "done" =>
              \A k \in DOMAIN io : io[k].result # None => Parent(notes[k].filepath) = BoardDir

\* C22 for the orphan cleanup and for created files: both stay in the
\* directory of the board; a file modified in another directory is the one
\* the note's locator named.
C22_CreatesAndTrashesInBoard ==
    save.pc # "off" =>
        /\ \A p \in save.trashIssued : Parent(p) = BoardDir
        /\ \A p \in save.wrote :
              Parent(p) = BoardDir
                  \/ \E k \in DOMAIN io : before.notes[k].filepath = p /\ IsTFile(before.vault, p)

\* A settled save of board B that modified a file of board A.
C22_ForeignFileModified ==
    /\ save.pc = "done" /\ save.board = BoardB
    /\ \E p \in save.wrote : Parent(p) = BoardPath(BoardA) /\ vault[p] # before.vault[p]

----------------------------------------------------------------------------
(* Two saveBoard invocations of one board in flight at once.  onSave does
   not await saveBoard, so a second call may start at any await of the
   first.  The invocation whose step is taken next is held in save, io and
   notes; the other one waits in calls. *)

\* An unchanged note is the same object in both lists.
SameObject(a, b) == [a EXCEPT !.filepath = <<>>] = [b EXCEPT !.filepath = <<>>]

\* The notes of the other invocation, with the locators this invocation has
\* assigned to the objects both lists share.
SharedLocators(mine, theirs) ==
    [k \in DOMAIN theirs |->
        IF \E j \in DOMAIN mine : SameObject(mine[j], theirs[k])
        THEN [theirs[k] EXCEPT !.filepath =
                 mine[CHOOSE j \in DOMAIN mine : SameObject(mine[j], theirs[k])].filepath]
        ELSE theirs[k]]

\* The event loop turns to the other invocation; the later call is made
\* only once the earlier one has been made.
Resume ==
    /\ calls # <<>>
    /\ save.pc # "idle"
    /\ save' = calls[1].save
    /\ io' = calls[1].io
    /\ notes' = SharedLocators(notes, calls[1].notes)
    /\ calls' = <<[save |-> save, io |-> io, notes |-> notes]>>
    /\ before' = [before EXCEPT !.turn = 3 - @]
    /\ UNCHANGED <<vault, metadataCache, trash, settings, faults, loaded, codec, mig, view>>

\* Board B with Note 1.md as a past save wrote it, with or without old.md.
OverlapVaults ==
    {v \in Vaults : /\ IsTFolder(v, BoardPath(BoardB))
                    /\ IsTFile(v, F1) /\ v[F1] = Stored(NewNote(Id1))
                    /\ ~Exists(v, F2)}

\* The earlier snapshot: note 1 as loaded or with its body edited, alone or
\* with the new note 2.
FirstSnapshots ==
    {<<n>> \o r :
        n \in {AsLoaded(NewNote(Id1), F1),
               [AsLoaded(NewNote(Id1), F1) EXCEPT !.content = <<"h", "i", "\n">>]},
        r \in {<<>>, <<NewNote(Id2)>>}}

InitOverlap ==
    /\ vault \in OverlapVaults
    /\ metadataCache = IndexOf(vault)
    /\ trash = {}
    /\ settings = DEFAULT_SETTINGS
    /\ notes \in FirstSnapshots
    /\ save = SaveIdle(BoardB)
    /\ io = [k \in 1..Len(notes) |-> IoIdle]
    /\ faults = 0
    /\ loaded = None
    /\ codec = CodecIdle
    /\ mig = MigIdle
    /\ view = ViewIdle
    /\ \E s2 \in Edits(notes) :
          /\ calls = <<[save |-> SaveIdle(BoardB), io |-> [k \in 1..Len(s2) |-> IoIdle],
                        notes |-> s2]>>
          /\ before = [vault |-> vault, cache |-> metadataCache, notes |-> notes,
                       turn |-> 1, s1 |-> notes, s2 |-> s2]

NextOverlap ==
    \/ SaveBoardCall
    \/ SaveConfigSettled
    \/ \E k \in DOMAIN io : ModifySettled(k)
    \/ \E k \in DOMAIN io : ReadSettled(k)
    \/ \E k \in DOMAIN io : CreateSettled(k)
    \/ \E k \in DOMAIN io : WriteRejected(k)
    \/ SaveAdvance
    \/ \E p \in save.trashing : TrashSettled(p)
    \/ \E p \in save.trashing : TrashRejected(p)
    \/ Resume

SpecOverlap == InitOverlap /\ [][NextOverlap]_vars

BothSettled == save.pc = "done" /\ calls # <<>> /\ calls[1].save.pc = "done"

\* The note files of the board directory, by the identifier of their header
NoteFilesOf(id) ==
    {p \in MdFiles(vault, BoardDir) :
        /\ HasMarker(getFileCache(metadataCache, p))
        /\ "id" \in DOMAIN metadataCache[p][1] /\ metadataCache[p][1]["id"] = id}

\* C23: once both invocations have settled every note of the later snapshot
\* has a file with the later snapshot's encoding of it, and no note that is
\* only in the earlier snapshot has a file.
C23_LaterSnapshotWins ==
    BothSettled =>
        /\ \A k \in DOMAIN before.s2 :
              \E p \in NoteFilesOf(before.s2[k].id) :
                  vault[p].text = constructFileContent(before.s2[k])
        /\ \A j \in DOMAIN before.s1 :
              (\A k \in DOMAIN before.s2 : before.s2[k].id # before.s1[j].id)
                  => NoteFilesOf(before.s1[j].id) = {}

\* Both settled, and the file of a note the later snapshot no longer has
\* was created by the earlier invocation and is still there.
C23_DeletedNoteFileLeft ==
    /\ BothSettled
    /\ \E j \in DOMAIN before.s1 :
          /\ \A k \in DOMAIN before.s2 : before.s2[k].id # before.s1[j].id
          /\ NoteFilesOf(before.s1[j].id) # {}

\* Both settled, and a note of both snapshots is stored as the earlier
\* snapshot has it.
C23_EarlierContentLeft ==
    /\ BothSettled
    /\ \E k \in DOMAIN before.s2 : \E j \in DOMAIN before.s1 :
          /\ before.s1[j].id = before.s2[k].id
          /\ constructFileContent(before.s1[j]) # constructFileContent(before.s2[k])
          /\ \E p \in NoteFilesOf(before.s2[k].id) :
                vault[p].text = constructFileContent(before.s1[j])

----------------------------------------------------------------------------
(* Two checkAndMigrate runs at once: the dashboard's loadData and the
   widget's render each call it on their own manager, over the same vault
   and the same plugin settings *)

\* The vaults of LegacyVaults whose legacy files are all valid and of which
\* none has been migrated before.
RaceVaults ==
    {v \in LegacyVaults :
        \A p \in Children(v, LegacyTarget(v)) :
            /\ v[p].kind = "file"
            /\ Extension(FileName(p)) = <<"json">> /\ FileName(p) # DataJson
            /\ JSONParse(v[p].text.rest).ok
            /\ LegacyNotes(JSONParse(v[p].text.rest).v) # None}

InitRace ==
    /\ vault \in RaceVaults
    /\ metadataCache = IndexOf(vault)
    /\ trash = {}
    /\ settings = DEFAULT_SETTINGS
    /\ notes = <<>>
    /\ save = SaveIdle(BoardB)
    /\ io = <<>>
    /\ faults = 0
    /\ loaded = None
    /\ codec = CodecIdle
    /\ mig = [procs |-> <<[MigProc EXCEPT !.pass = MaxPasses - 1],
                          [MigProc EXCEPT !.pass = MaxPasses - 1]>>,
              log |-> {}]
    /\ view = ViewIdle
    /\ calls = <<>>
    /\ before = [vault |-> vault, cache |-> metadataCache, notes |-> notes]

NextRace ==
    \/ \E m \in DOMAIN mig.procs : MigrateStart(m)
    \/ \E m \in DOMAIN mig.procs : MigrateRead(m)
    \/ \E m \in DOMAIN mig.procs : MigrateFolderCreated(m)
    \/ \E m \in DOMAIN mig.procs : MigrateConfigSaved(m)
    \/ \E m \in DOMAIN mig.procs : MigrateNoteSettled(m)
    \/ \E m \in DOMAIN mig.procs : MigrateNoteRejected(m)
    \/ \E m \in DOMAIN mig.procs : MigrateMarkSaved(m)
    \/ \E m \in DOMAIN mig.procs : MigrateRenamed(m)
    \/ \E m \in DOMAIN mig.procs : MigrateRejected(m)

SpecRace == InitRace /\ [][NextRace]_vars

RunsSettled == \A m \in DOMAIN mig.procs : mig.procs[m].pc = "idle" /\ mig.procs[m].pass = MaxPasses

\* The legacy notes of file f, as saveNote is handed them
LegacyNotesOf(f) ==
    NoteDataList(LegacyNotes(JSONParse(before.vault[f].text.rest).v)[1].items)

\* The files of the vault that hold the encoding of note n
BackingFiles(n) ==
    {p \in DOMAIN vault : IsTFile(vault, p) /\ vault[p].text = constructFileContent(n)}

\* C24: once both runs have settled, every legacy file is listed once in
\* migratedFiles, is kept once under the .migrated suffix, and each of its
\* notes is backed by one file holding the note's encoding.
C24_ConcurrentMigration ==
    RunsSettled =>
        \A f \in LegacyFiles :
            /\ Count(settings.migratedFiles, FileName(f)) = 1
            /\ KeptAsMigrated(f)
            /\ ~Exists(vault, WithSuffix(WithSuffix(f)))
            /\ \A i \in DOMAIN LegacyNotesOf(f) :
                  Cardinality(BackingFiles(LegacyNotesOf(f)[i])) = 1

\* C24 without the count: the name is listed, the original kept once under
\* the suffix and each note backed by one file.
C24_MigratedOnceOnDisk ==
    RunsSettled =>
        \A f \in LegacyFiles :
            /\ Count(settings.migratedFiles, FileName(f)) >= 1
            /\ KeptAsMigrated(f)
            /\ ~Exists(vault, WithSuffix(WithSuffix(f)))
            /\ \A i \in DOMAIN LegacyNotesOf(f) :
                  Cardinality(BackingFiles(LegacyNotesOf(f)[i])) = 1

\* Both runs have settled and a name is listed twice.
C24_ListedTwice ==
    /\ RunsSettled
    /\ \E f \in LegacyFiles : Count(settings.migratedFiles, FileName(f)) = 2

----------------------------------------------------------------------------
(* A target path occupied by a folder *)

Issued == save.pc \in {"writing", "trashing", "done"}

\* C25: the saveNote of a note whose target path is a folder returns null at
\* once, without a rejection; the folder stays as it is with nothing created
\* in it, the note keeps its locator, and the other notes of the list are
\* issued and written as if the note were not there.
C25_OccupiedTarget ==
    \A k \in DOMAIN io :
        (Issued /\ Occupied(k)) =>
            /\ io[k] = IoNull(TargetOf(k), FALSE)
            /\ notes[k].filepath = before.notes[k].filepath
            /\ IsTFolder(vault, TargetOf(k))
            /\ Children(vault, TargetOf(k)) = Children(before.vault, TargetOf(k))
            /\ TargetOf(k) \notin save.wrote \cup save.active
            /\ \A j \in DOMAIN io : io[j].op # "idle"
            /\ save.pc = "done" =>
                  \A j \in DOMAIN io :
                      (~Occupied(j) /\ ~io[j].failed) =>
                          /\ io[j].result = Some(notes[j].filepath)
                          /\ IsTFile(vault, notes[j].filepath)
                          /\ vault[notes[j].filepath].text = Encoded(j)

C25_Witness ==
    /\ save.pc = "done"
    /\ Len(notes) = 2
    /\ Occupied(1)
    /\ io[2].result # None /\ save.wrote # {}
    /\ trash # {}

----------------------------------------------------------------------------
(* A list longer than one chunk *)

MaxBatch == 51

\* Note 1 moved since it was loaded, note 2 as loaded, the others new.
LongList ==
    [i \in 1..MaxBatch |->
        IF i = 1 THEN [AsLoaded(NewNote(Id1), F1) EXCEPT !.x = 34]
        ELSE IF i = 2 THEN AsLoaded(NewNote(Id2), F2)
        ELSE NewNote(IntDigits(i))]

InFlight == {k \in DOMAIN io : io[k].op \notin {"idle", "done"}}

\* The writes in flight settle in any order; of these orders the model takes
\* those in which the next to settle is the first or the last in flight.
AtEnd(k) == k \in InFlight /\ ((\A j \in InFlight : k <= j) \/ (\A j \in InFlight : j <= k))

InitBatch ==
    /\ vault \in {v \in Vaults : /\ IsTFile(v, F1) /\ v[F1] = Stored(NewNote(Id1))
                                 /\ IsTFile(v, F2)}
    /\ metadataCache = IndexOf(vault)
    /\ trash = {}
    /\ settings = DEFAULT_SETTINGS
    /\ notes = LongList
    /\ save = SaveIdle(BoardB)
    /\ io = [k \in 1..Len(notes) |-> IoIdle]
    /\ faults = 0
    /\ loaded = None
    /\ codec = CodecIdle
    /\ mig = MigIdle
    /\ view = ViewIdle
    /\ calls = <<>>
    /\ before = [vault |-> vault, cache |-> metadataCache, notes |-> notes]

NextBatch ==
    \/ SaveBoardCall
    \/ SaveConfigSettled
    \/ \E k \in DOMAIN io : AtEnd(k) /\ ModifySettled(k)
    \/ \E k \in DOMAIN io : AtEnd(k) /\ ReadSettled(k)
    \/ \E k \in DOMAIN io : AtEnd(k) /\ CreateSettled(k)
    \/ SaveAdvance
    \/ \E p \in save.trashing : TrashSettled(p)

SpecBatch == InitBatch /\ [][NextBatch]_vars

\* The batch of note k: notes 1..50 are batch 0, 51..100 batch 1
BatchOf(k) == (k - 1) \div 50

\* C26: a note's write is issued only when every write of the batches before
\* its own has settled, the notes of a batch are issued together, and at
\* most 50 writes are in flight.
C26_BatchesInSequence ==
    /\ \A j, k \in DOMAIN io :
          (BatchOf(j) < BatchOf(k) /\ io[k].op # "idle") => io[j].op = "done"
    /\ \A j, k \in DOMAIN io :
          BatchOf(j) = BatchOf(k) => (io[j].op = "idle" <=> io[k].op = "idle")
    /\ Cardinality(InFlight) <= 50

\* The second batch is in flight, the first having settled in part before
\* its last write did.
C26_Witness ==
    /\ Len(io) > 50
    /\ \E k \in DOMAIN io : BatchOf(k) = 1 /\ io[k].op = "create"
    /\ \A k \in DOMAIN io : BatchOf(k) = 0 => io[k].result # None

----------------------------------------------------------------------------
(* A rejected read during loadBoard *)

Qualifying == LoadedNotes(vault, metadataCache, save.board)

\* C27: loadBoard settles successfully whether or not the read of a note
\* file was rejected, and returns the qualifying notes but at most the one
\* whose read was rejected.
C27_LoadSurvivesReadFailure ==
    loaded # None =>
        /\ loaded[1].ok
        /\ loaded[1].notes \subseteq Qualifying
        /\ Cardinality(Qualifying \ loaded[1].notes) <= 1

\* C27 for a load none of whose reads was rejected: every qualifying note
\* is returned.
C27_LoadWithoutFailure ==
    (loaded # None /\ loaded[1].ok) => loaded[1].notes = Qualifying

\* A load that was rejected although the directory holds a readable note file.
C27_LoadRejected ==
    /\ loaded # None /\ ~loaded[1].ok
    /\ Cardinality(Qualifying) = 2

----------------------------------------------------------------------------
(* Note files that are in the board directory before the migration *)

\* The board directories the legacy files of the scanned folder migrate to
TargetBoards == {BoardPath(Basename(FileName(f))) : f \in LegacyFiles}

\* C28: a file that was in a target board directory before the migration
\* still has its content.
C28_ExistingFilesKept ==
    \A p \in DOMAIN before.vault :
        (IsTFile(before.vault, p) /\ Parent(p) \in TargetBoards) =>
            IsTFile(vault, p) /\ vault[p] = before.vault[p]

\* The file of an earlier note was overwritten with the legacy note of the
\* same identifier.
C28_ExistingFileOverwritten ==
    /\ IsTFile(before.vault, IdeasNote1)
    /\ vault[IdeasNote1] # before.vault[IdeasNote1]
    /\ \E e \in mig.log : e.op = "write" /\ e.path = IdeasNote1

----------------------------------------------------------------------------
(* A save that finds the metadata index behind the vault: the host indexes
   a file some time after it was written *)

\* The index for Note 1.md of board B: as the host has it once it has caught
\* up (fresh), with no entry for the file (none), showing the header a past
\* state of the file had (old), or showing the header of the note about to
\* be saved although the file holds something else (same).
IndexStates(v, ns) ==
    {IndexOf(v)} \cup
    (IF IsTFile(v, F1)
     THEN {Drop(IndexOf(v), {F1}),
           Put(IndexOf(v), F1, ParseFrontmatter(HandMade(Id1).text))}
          \cup {Put(IndexOf(v), F1, ParseFrontmatter(constructFileContent(ns[k]))) :
                   k \in {j \in DOMAIN ns : ns[j].id = Id1}}
     ELSE {})

InitIndex ==
    /\ vault \in {v \in Vaults : IsTFolder(v, BoardPath(BoardB))}
    /\ notes \in NoteLists
    /\ metadataCache \in IndexStates(vault, notes)
    /\ trash = {}
    /\ settings = DEFAULT_SETTINGS
    /\ save = SaveIdle(BoardB)
    /\ io = [k \in 1..Len(notes) |-> IoIdle]
    /\ faults \in 0..MaxFaults
    /\ loaded = None
    /\ codec = CodecIdle
    /\ mig = MigIdle
    /\ view = ViewIdle
    /\ calls = <<>>
    /\ before = [vault |-> vault, cache |-> metadataCache, notes |-> notes]

NextIndex ==
    \/ SaveBoardCall
    \/ SaveConfigSettled
    \/ SaveConfigRejected
    \/ \E k \in DOMAIN io : ModifySettled(k)
    \/ \E k \in DOMAIN io : ReadSettled(k)
    \/ \E k \in DOMAIN io : CreateSettled(k)
    \/ \E k \in DOMAIN io : WriteRejected(k)
    \/ SaveAdvance
    \/ \E p \in save.trashing : TrashSettled(p)
    \/ \E p \in save.trashing : TrashRejected(p)

SpecIndex == InitIndex /\ [][NextIndex]_vars

\* C29: the path a saveNote returned names a file whose content is the
\* encoding of the note, whatever the index showed for the file.
C29_ReturnedPathHoldsEncoding ==
    \A k \in DOMAIN io :
        io[k].result # None =>
            /\ IsTFile(vault, io[k].result[1])
            /\ vault[io[k].result[1]].text = Encoded(k)

StaleFor(k) ==
    /\ IsTFile(before.vault, F1)
    /\ before.vault[F1].text # Encoded(k)
    /\ F1 \in DOMAIN before.cache
    /\ before.cache[F1] # ParseFrontmatter(before.vault[F1].text)
    /\ ~hasMetadataChanged(getFileCache(before.cache, F1), before.notes[k])

\* A settled save that returned Note 1.md for a note whose header the index
\* showed although the file held something else.
C29_Witness ==
    /\ save.pc = "done"
    /\ \E k \in DOMAIN io :
          io[k].result = Some(F1) /\ StaleFor(k) /\ vault[F1].text = Encoded(k)

----------------------------------------------------------------------------
(* The boards left by the views *)

Loaded(w) == view.views[w].pc # "unloaded"

\* C30: once a view has loaded, the base folder holds at least one board
\* directory.
C30_AlwaysABoard ==
    (\E w \in DOMAIN view.views : Loaded(w)) => listBoards(vault) # {}

\* No board is left, the last one deleted through the dashboard, whose list
\* still held two boards when the delete was asked.
C30_DashboardDeletedLast ==
    /\ listBoards(vault) = {}
    /\ \E w \in DOMAIN view.views :
          /\ view.views[w].kind = "dashboard" /\ view.views[w].notice = "deleted"
          /\ view.views[w].last # None /\ view.views[w].last[1].atCall = 1

\* No board is left, the only one deleted through the widget.
C30_WidgetDeletedLast ==
    /\ listBoards(vault) = {}
    /\ \E w \in DOMAIN view.views :
          /\ view.views[w].kind = "widget" /\ view.views[w].notice = "deleted"
          /\ view.views[w].last # None /\ view.views[w].last[1].atRequest = 1


----------------------------------------------------------------------------
(* An edit, the debounce window and the unmount of the view *)

\* The repository holds two hooks named useWhiteboardLogic.  The callback
\* the one of part_007 hands to debounce calls onSave whenever the timer
\* fires; the one of notes/board/useWhiteboardLogic.ts returns first when
\* isReadyRef.current is false, which the cleanup of its mount effect makes
\* it.  view.hook says which of the two the component was built with.
Hooks == {"latest", "isReady"}

\* The name onSave hands to saveBoard: the currentName its closure captured
\* (dashboard) or this.currentBoardName as it is now (widget).
SaveName(w, bound) == IF bound # None THEN bound[1] ELSE view.views[w].currentName

\* The component after an edit: the notes state is replaced and debouncedSave
\* is called with the new list (by setNotesAndSave, or by the effect on
\* [notes, wallStyle]); the call replaces the one still waiting.
Scheduled(w, nextNotes) ==
    LET vw == view.views[w]
        timer == [notes |-> nextNotes, origin |-> vw.origin,
                  bound |-> IF vw.kind = "dashboard" THEN Some(vw.currentName) ELSE None,
                  rev |-> view.rev + 1]
    IN  [view EXCEPT !.ops = @ + 1, !.rev = @ + 1,
                     !.views[w].shown = nextNotes,
                     !.views[w].timers = {timer}]

\* updateNote(id, diff): the first note dragged
UpdateNote(w) ==
    /\ CanUse(w)
    /\ view.views[w].pc = "ready"
    /\ view.views[w].shown # <<>>
    /\ \E x \in {34, 55} :
          /\ x # view.views[w].shown[1].x
          /\ view' = Scheduled(w, [view.views[w].shown EXCEPT ![1].x = x])
    /\ UNCHANGED <<vault, metadataCache, trash, settings, faults, NotView>>

\* An edit of the hook that calls onSave inside the updater of setNotes
\* (createNoteAt and deleteNote of notes/board/useWhiteboardLogic.ts): the
\* saveBoard starts at once, and the effect schedules the debounced call too.
\* With the hook of part_007 the edit goes through setNotesAndSave alone.
SavedAtOnce(w, nextNotes) ==
    IF view.hook = "latest"
    THEN /\ view' = Scheduled(w, nextNotes)
         /\ UNCHANGED <<save, notes, io, before>>
    ELSE /\ save.pc \in {"off", "done"}
         /\ save' = SaveIdle(view.views[w].currentName)
         /\ notes' = nextNotes
         /\ io' = [k \in 1..Len(nextNotes) |-> IoIdle]
         /\ before' = [vault |-> vault, cache |-> metadataCache, notes |-> nextNotes,
                       origin |-> view.views[w].origin]
         /\ view' = [Scheduled(w, nextNotes) EXCEPT !.savedRev = view.rev + 1]

\* createNoteAt(x, y): a note without a file is appended
CreateNoteAt(w) ==
    /\ CanUse(w)
    /\ view.views[w].pc = "ready"
    /\ \A i \in DOMAIN view.views[w].shown : view.views[w].shown[i].id # Id2
    /\ SavedAtOnce(w, Append(view.views[w].shown, NewNote(Id2)))
    /\ UNCHANGED <<vault, metadataCache, trash, settings, faults, loaded, codec, mig, calls>>

\* deleteNote(id): the first note removed
DeleteNote(w) ==
    /\ CanUse(w)
    /\ view.views[w].pc = "ready"
    /\ view.views[w].shown # <<>>
    /\ SavedAtOnce(w, Tail(view.views[w].shown))
    /\ UNCHANGED <<vault, metadataCache, trash, settings, faults, loaded, codec, mig, calls>>

\* onunload of the host: the React root is unmounted, which runs the
\* cleanups of the component's effects.  Nothing cancels or runs the
\* debounced call that is waiting.
Onunload(w) ==
    /\ w \in DOMAIN view.views
    /\ view.views[w].pc = "ready"
    /\ view' = [view EXCEPT !.views[w].pc = "unmounted"]
    /\ UNCHANGED <<vault, metadataCache, trash, settings, faults, NotView>>

\* onSave(data) of the container: saveBoard(name, data)
OnSave(w, t) ==
    /\ save' = SaveIdle(SaveName(w, t.bound))
    /\ notes' = t.notes
    /\ io' = [k \in 1..Len(t.notes) |-> IoIdle]
    /\ before' = [vault |-> vault, cache |-> metadataCache, notes |-> t.notes,
                  origin |-> t.origin]
    /\ view' = [view EXCEPT !.views[w].timers = @ \ {t}, !.savedRev = t.rev]

\* The debounce window of the hook of part_007 elapses: the callback calls
\* onSave with the arguments of the last call.
DebouncedSave(w) ==
    /\ w \in DOMAIN view.views
    /\ view.hook = "latest"
    /\ save.pc \in {"off", "done"}
    /\ \E t \in view.views[w].timers : OnSave(w, t)
    /\ UNCHANGED <<vault, metadataCache, trash, settings, faults, loaded, codec, mig, calls>>

\* The debounce window of the hook of notes/board/useWhiteboardLogic.ts
\* elapses: if (!isReadyRef.current) return; comes before onSave.
DebouncedSaveIfReady(w) ==
    /\ w \in DOMAIN view.views
    /\ view.hook = "isReady"
    /\ save.pc \in {"off", "done"}
    /\ \E t \in view.views[w].timers :
          IF view.views[w].pc = "unmounted"
          THEN /\ view' = [view EXCEPT !.views[w].timers = @ \ {t}]
               /\ UNCHANGED <<save, notes, io, before>>
          ELSE OnSave(w, t)
    /\ UNCHANGED <<vault, metadataCache, trash, settings, faults, loaded, codec, mig, calls>>

InitLive ==
    /\ vault \in SwitchVaults
    /\ metadataCache = IndexOf(vault)
    /\ trash = {}
    /\ settings = DEFAULT_SETTINGS
    /\ notes = <<>>
    /\ save = [SaveIdle(BoardA) EXCEPT !.pc = "off"]
    /\ io = <<>>
    /\ faults = 0
    /\ loaded = None
    /\ codec = CodecIdle
    /\ mig = MigIdle
    /\ \E kind \in {"dashboard", "widget"} : \E list \in Listings(BoardA) : \E hook \in Hooks :
          view = [views |-> <<BoardView(kind, BoardA, list)>>, ops |-> 0,
                  hook |-> hook, rev |-> 0, savedRev |-> 0]
    /\ calls = <<>>
    /\ before = [vault |-> vault, cache |-> metadataCache, notes |-> notes, origin |-> BoardA]

\* A step of the saveBoard that is running
SaveStep ==
    \/ SaveBoardCall
    \/ SaveConfigSettled
    \/ \E k \in DOMAIN io : ModifySettled(k)
    \/ \E k \in DOMAIN io : ReadSettled(k)
    \/ \E k \in DOMAIN io : CreateSettled(k)
    \/ SaveAdvance
    \/ \E p \in save.trashing : TrashSettled(p)

NextLive ==
    \/ \E w \in DOMAIN view.views : UpdateNote(w)
    \/ \E w \in DOMAIN view.views : CreateNoteAt(w)
    \/ \E w \in DOMAIN view.views : DeleteNote(w)
    \/ \E w \in DOMAIN view.views : Onunload(w)
    \/ \E w \in DOMAIN view.views : DebouncedSave(w)
    \/ \E w \in DOMAIN view.views : DebouncedSaveIfReady(w)
    \/ SaveStep

\* The timer of debounce fires once its window has elapsed, and the host
\* settles every file operation it was handed.
SpecLive ==
    /\ InitLive
    /\ [][NextLive]_vars
    /\ WF_vars(\E w \in {1} : DebouncedSave(w))
    /\ WF_vars(\E w \in {1} : DebouncedSaveIfReady(w))
    /\ WF_vars(SaveStep)

\* An edit no saveBoard has been handed yet
EditWaiting == view.rev > view.savedRev

\* C31: every edit made through the view is eventually followed by a
\* saveBoard invocation whose snapshot holds that edit, also when the view
\* is unmounted before the debounce window has elapsed.
C31_EditReachesSaveBoard == EditWaiting ~> (view.savedRev = view.rev)

\* C31 with the hook of part_007: the timer outlives the component, fires
\* and calls saveBoard with the edited list.
C31_LatestHookSaves ==
    (view.hook = "latest" /\ EditWaiting)
        ~> (view.savedRev = view.rev /\ save.pc # "off" /\ before.notes = view.views[1].shown)

\* An edit made with the hook that tests isReadyRef, the view unmounted
\* within the window, and the waiting call gone without a saveBoard.
C31_EditDropped ==
    /\ view.hook = "isReady"
    /\ view.views[1].pc = "unmounted"
    /\ view.views[1].timers = {}
    /\ EditWaiting


----------------------------------------------------------------------------
(* The note list handed to a save *)

\* The list has the notes it had when saveBoard was called, in their order,
\* every field but the locator as it was.
SameButLocators ==
    /\ Len(notes) = Len(before.notes)
    /\ \A k \in DOMAIN notes : [notes[k] EXCEPT !.filepath = <<>>]
                                   = [before.notes[k] EXCEPT !.filepath = <<>>]

\* The locator of note k is not the one the list came with.
Relocated(k) == notes[k].filepath # before.notes[k].filepath

\* C32: saveBoard and saveNote leave the list they receive as it is, except
\* that the locator of a note becomes the path its file was written to; the
\* note of a failed write is unchanged.
C32_OnlyLocatorAfterWrite ==
    save.pc # "off" =>
        /\ SameButLocators
        /\ \A k \in DOMAIN notes :
              /\ Relocated(k) => /\ io[k].result = Some(notes[k].filepath)
                                 /\ notes[k].filepath \in save.wrote
              /\ io[k].failed => notes[k] = before.notes[k]

\* C32 as the code has it: the locator becomes the path saveNote returned,
\* the file it wrote or the file it read and found to hold the encoding of
\* the note; a note whose call returned null is unchanged.
C32_OnlyLocatorAfterReturn ==
    save.pc # "off" =>
        /\ SameButLocators
        /\ \A k \in DOMAIN notes :
              /\ Relocated(k) => /\ io[k].result = Some(notes[k].filepath)
                                 /\ notes[k].filepath = TargetOf(k)
              /\ io[k].result = None => notes[k] = before.notes[k]

\* A save that gave one note its locator after a write and left the note of
\* a failed write as it came.
C32_Witness ==
    /\ save.pc = "done"
    /\ \E k \in DOMAIN notes : Relocated(k) /\ notes[k].filepath \in save.wrote
    /\ \E k \in DOMAIN notes : io[k].failed /\ notes[k] = before.notes[k]

\* A note whose locator was set by a call that wrote nothing
C32_RelocatedWithoutWrite ==
    \E k \in DOMAIN notes : Relocated(k) /\ notes[k].filepath \notin save.wrote


----------------------------------------------------------------------------
(* A legacy file without a notes array *)

\* The text of legacy file f parses to an object that has no notes member.
WithoutNotes(f) ==
    LET parsed == JSONParse(before.vault[f].text.rest)
    IN  parsed.ok /\ parsed.v.t # "arr" /\ ~HasMember(parsed.v, "notes")

\* C33: a legacy file whose parsed content has no notes array is passed over
\* without error and without side effects: no board directory is made for it,
\* no configuration stored, the file stays at its path with its content, its
\* name is not added to migratedFiles; and the other legacy files of the
\* pass are still read.
C33_FileWithoutNotesSkipped ==
    \A f \in LegacyFiles :
        WithoutNotes(f) =>
            LET dir == BoardPath(Basename(FileName(f)))
            IN  /\ \A e \in mig.log : e.file = f => e.op \in {"noNotes", "readFailed"}
                /\ Exists(vault, dir) = Exists(before.vault, dir)
                /\ dir \notin DOMAIN settings.boards
                /\ dir \notin DOMAIN settings.data.boards
                /\ IsTFile(vault, f) /\ vault[f] = before.vault[f]
                /\ Exists(vault, WithSuffix(f)) = Exists(before.vault, WithSuffix(f))
                /\ FileName(f) \notin Range(settings.migratedFiles)
                /\ FileName(f) \notin Range(settings.data.migratedFiles)
                /\ mig.procs[1].pass >= 1 =>
                      \A g \in LegacyFiles \ {f} :
                          \E e \in mig.log :
                              /\ e.pass = 1 /\ e.file = g
                              /\ e.op \in {"read", "readFailed", "parseFailed", "noNotes"}

\* Two passes over a folder with Plans.json, which has no notes, and
\* Ideas.json: Plans.json was passed over in both, Ideas.json migrated in the
\* first.
C33_Witness ==
    /\ mig.procs[1].pc = "idle" /\ mig.procs[1].pass = 2
    /\ \E f \in LegacyFiles :
          /\ WithoutNotes(f)
          /\ \A p \in 1..2 : \E e \in mig.log : e.pass = p /\ e.file = f /\ e.op = "noNotes"
          /\ \E g \in LegacyFiles \ {f} : MigratedIn(g, 1)


----------------------------------------------------------------------------
(* loadBoard over hand-edited note files *)

HeaderFields ==
    {"id", "x", "y", "color", "size", "shape", "style", "bgStyle", "rotation",
     "pinType", "pinPos"}

\* A note none of whose fields has the value parseNoteFile falls back to
EditedNote ==
    [NewNote(Id3) EXCEPT !.color = <<"pink">>, !.size = <<"l">>, !.shape = <<"circle">>,
                         !.style = <<"flat">>, !.bgStyle = <<"lined">>,
                         !.pinType = <<"pin">>, !.pinPos = <<"left">>]

\* The file of a note with the header lines of the keys in drop deleted
Without(note, drop) ==
    LET text == constructFileContent(note)
        kept == {i \in DOMAIN text.fm : text.fm[i].k \notin drop}
        nth(j) == CHOOSE i \in kept : Cardinality({m \in kept : m < i}) = j - 1
    IN  File([text EXCEPT !.fm = [j \in 1..Cardinality(kept) |-> text.fm[nth(j)]]])

MaxDropped == 2

\* The header fields a hand edit has removed: at most MaxDropped of them, all
\* of them, or the marker
Drops ==
    {d \in SUBSET HeaderFields : Cardinality(d) <= MaxDropped} \cup {HeaderFields, {"type"}}

TxtPath == BoardPath(BoardB) \o << <<"Note ", "2", ".", "txt">> >>

\* Board B with old.md, a note file edited by hand, and beside it nothing, a
\* stored note, a file of the user, a stored note without the marker line,
\* or a note file that is not an .md file.
LoadVaults ==
    {VaultOf(<< <<getBasePath, Folder>>, <<BoardPath(BoardB), Folder>>,
                <<OldMd, Without(EditedNote, drop)>> >> \o other) :
        drop \in Drops,
        other \in {<<>>, << <<F1, Stored(NewNote(Id1))>> >>, << <<TodoMd, UserFile>> >>,
                   << <<F2, Without(NewNote(Id2), {"type"})>> >>,
                   << <<TxtPath, Stored(NewNote(Id2))>> >>}}

\* The index of the vault, or the index before the host has read old.md
LoadIndexes(v) == {IndexOf(v), Drop(IndexOf(v), {OldMd})}

InitLoad ==
    /\ vault \in LoadVaults
    /\ metadataCache \in LoadIndexes(vault)
    /\ trash = {}
    /\ settings = DEFAULT_SETTINGS
    /\ notes = <<>>
    /\ save = [SaveIdle(BoardB) EXCEPT !.pc = "done"]
    /\ io = <<>>
    /\ faults \in 0..MaxFaults
    /\ loaded = None
    /\ codec = CodecIdle
    /\ mig = MigIdle
    /\ view = ViewIdle
    /\ calls = <<>>
    /\ before = [vault |-> vault, cache |-> metadataCache, notes |-> notes, faults |-> faults]

NextLoad == LoadBoard \/ LoadBoardRejected

SpecLoad == InitLoad /\ [][NextLoad]_vars

\* The .md files of the board directory whose indexed header has the marker
MarkedFiles ==
    {f \in DOMAIN vault :
        /\ Parent(f) = BoardDir /\ vault[f].kind = "file"
        /\ Extension(FileName(f)) = <<"md">>
        /\ f \in DOMAIN metadataCache /\ metadataCache[f] # None
        /\ "type" \in DOMAIN metadataCache[f][1]
        /\ metadataCache[f][1]["type"] = <<"sticky-note">>}

\* The value of header field k of file f, or d when the header has no such field
HeaderOr(f, k, d) ==
    IF k \in DOMAIN metadataCache[f][1] THEN metadataCache[f][1][k] ELSE d

\* C34: loadBoard returns a note for exactly the .md files of the board
\* directory whose indexed header has the sticky-note marker; a header field
\* that is missing takes its default (id: the base name of the file, x and
\* y: 0, color: yellow, size: m, shape: square, style: realistic, bgStyle:
\* solid, rotation: 0, pinType: none, pinPos: center); and a load is rejected
\* only when a read was, never for a missing field.
C34_LoadDefaults ==
    loaded # None =>
        /\ loaded[1].ok =>
              /\ Cardinality(loaded[1].notes) = Cardinality(MarkedFiles)
              /\ \A f \in MarkedFiles :
                    \E n \in loaded[1].notes :
                        /\ n.filepath = f
                        /\ n.type = <<"sticky-note">>
                        /\ n.id = HeaderOr(f, "id", Basename(FileName(f)))
                        /\ n.x = HeaderOr(f, "x", 0)
                        /\ n.y = HeaderOr(f, "y", 0)
                        /\ n.color = HeaderOr(f, "color", <<"yellow">>)
                        /\ n.size = HeaderOr(f, "size", <<"m">>)
                        /\ n.shape = HeaderOr(f, "shape", <<"square">>)
                        /\ n.style = HeaderOr(f, "style", <<"realistic">>)
                        /\ n.bgStyle = HeaderOr(f, "bgStyle", <<"solid">>)
                        /\ n.rotation = HeaderOr(f, "rotation", 0)
                        /\ n.pinType = HeaderOr(f, "pinType", <<"none">>)
                        /\ n.pinPos = HeaderOr(f, "pinPos", <<"center">>)
        /\ ~loaded[1].ok => faults < before.faults

\* A load that returned the note of old.md, whose header is the marker line
\* alone, with every default, beside the stored note 1.
C34_Witness ==
    /\ loaded # None /\ loaded[1].ok
    /\ OldMd \in DOMAIN metadataCache /\ metadataCache[OldMd] # None
    /\ DOMAIN metadataCache[OldMd][1] = {"type"}
    /\ Cardinality(loaded[1].notes) = 2
    /\ \E n \in loaded[1].notes :
          /\ n.filepath = OldMd /\ n.id = <<"old">> /\ n.x = 0 /\ n.rotation = 0
          /\ n.color = <<"yellow">> /\ n.pinPos = <<"center">>


----------------------------------------------------------------------------
(* The stored configuration of a board that is saved *)

WideConfig ==
    [wallStyle |-> <<"dots">>, isFullWidth |-> Some(TRUE), zoom |-> Some(20),
     lastViewX |-> Some(50), lastViewY |-> Some(70)]

\* The settings a save may find: no configuration for board B, or one that
\* an earlier session stored.
StoredFor(boardName) ==
    {DEFAULT_SETTINGS} \cup
    {[boards |-> held, migratedFiles |-> <<>>,
      data |-> [boards |-> held, migratedFiles |-> <<>>]] :
        held \in {[p \in {BoardPath(boardName)} |-> c] : c \in {GridConfig, WideConfig}}}

InitStored ==
    /\ vault \in Vaults
    /\ metadataCache = IndexOf(vault)
    /\ trash = {}
    /\ settings \in StoredFor(BoardB)
    /\ notes \in {l \in NoteLists : Len(l) <= 1}
    /\ save = SaveIdle(BoardB)
    /\ io = [k \in 1..Len(notes) |-> IoIdle]
    /\ faults \in 0..MaxFaults
    /\ loaded = None
    /\ codec = CodecIdle
    /\ mig = MigIdle
    /\ view = ViewIdle
    /\ calls = <<>>
    /\ before = [vault |-> vault, cache |-> metadataCache, notes |-> notes,
                 config |-> getConfig(settings.boards, BoardPath(BoardB))]

SpecStored == InitStored /\ [][Next]_vars

\* updateConfig of the save has run
ConfigUpdated == save.pc \notin {"off", "idle"}

\* Field k of a configuration, None when it has no such field
ConfigField(c, k) == IF k \in DOMAIN c THEN c[k] ELSE None

\* C35: saveBoard changes only wallStyle and isFullWidth of the stored
\* configuration, and a field the data does not supply stays as it was:
\* after a save whose data has no isFullWidth the full-width flag, the zoom
\* and the last-view fields are the ones stored before.
C35_ConfigFrame ==
    ConfigUpdated =>
        LET now == settings.boards[BoardDir]
        IN  /\ now.wallStyle = save.data.wallStyle
            /\ ConfigField(now, "isFullWidth") =
                  IF save.data.isFullWidth = None THEN before.config.isFullWidth
                  ELSE save.data.isFullWidth
            /\ \A k \in {"zoom", "lastViewX", "lastViewY"} :
                  ConfigField(now, k) = ConfigField(before.config, k)

\* C35 without the full-width flag: the wall style is the one of the data,
\* zoom and the last-view fields are kept.
C35_ViewFieldsKept ==
    ConfigUpdated =>
        LET now == settings.boards[BoardDir]
        IN  /\ now.wallStyle = save.data.wallStyle
            /\ \A k \in {"zoom", "lastViewX", "lastViewY"} :
                  ConfigField(now, k) = ConfigField(before.config, k)

\* A save that settled with the stored flag of a full-width board gone from
\* data.json
C35_FlagLost ==
    /\ save.pc = "done"
    /\ before.config.isFullWidth = Some(TRUE)
    /\ ConfigField(settings.data.boards[BoardDir], "isFullWidth") = None
    /\ ConfigField(settings.data.boards[BoardDir], "zoom") = Some(20)


----------------------------------------------------------------------------
(* The board a view moves to after createBoard *)

\* The dashboard and the widget over the vaults of the views; the user
\* creates board B or a board named "My Board:Test", and switches boards.
NextCreate ==
    \/ \E w \in DOMAIN view.views : ViewLoad(w)
    \/ \E w \in DOMAIN view.views, n \in {BoardA, BoardB, Default, safeName(ColonName)} :
          SwitchBoard(w, n)
    \/ \E w \in DOMAIN view.views, n \in {BoardB, ColonName} : CreateBoard(w, n)

SpecCreate == InitView /\ [][NextCreate]_vars

\* The board directories a step has created
NewBoards == {p \in DOMAIN vault' \ DOMAIN vault : p # getBasePath}

\* View w has acted on a request of the user and a board directory was made:
\* onCreateBoard with a createBoard that returned true.
CreatedBy(w) == view'.ops = view.ops + 1 /\ view'.views[w] # view.views[w] /\ NewBoards # {}

\* C36: after a createBoard that succeeded, the board the view has as its
\* current one, which it loads and saves to, is the directory createBoard
\* made, whatever the name typed.
C36_ViewOnCreatedBoard ==
    [][\A w \in DOMAIN view.views :
          CreatedBy(w) => BoardPath(view'.views[w].currentName) \in NewBoards]_vars

\* C36 for a name that sanitization leaves as typed
C36_PlainNameOnCreatedBoard ==
    [][\A w \in DOMAIN view.views :
          (CreatedBy(w) /\ safeName(view'.views[w].currentName) = view'.views[w].currentName)
              => BoardPath(view'.views[w].currentName) \in NewBoards]_vars

\* A view whose current board is the name as typed, for which the vault has
\* no directory, while the directory createBoard made stands unused.
C36_OnMissingBoard ==
    \E w \in DOMAIN view.views :
        /\ view.views[w].currentName = ColonName
        /\ ~Exists(vault, BoardPath(ColonName))
        /\ IsTFolder(vault, BoardPath(safeName(ColonName)))


----------------------------------------------------------------------------
(* The board-wide straighten toggle *)

\* notes.some(n => n.originalRotation !== undefined)
hasRotated(list) == \E i \in DOMAIN list : list[i].originalRotation # None

\* Variant: the rotation a note had is not put back; every note gets a new
\* random one.
toggleStraightenAnew(list, random) ==
    IF hasRotated(list)
    THEN [i \in DOMAIN list |->
            [list[i] EXCEPT !.originalRotation = None, !.rotation = random[i]]]
    ELSE [i \in DOMAIN list |->
            [list[i] EXCEPT !.originalRotation = Some(list[i].rotation), !.rotation = 0]]

\* toggleStraighten, the list it hands to setNotesAndSave; random[i] is the
\* value Math.random() * 6 - 3 takes for note i.
toggleStraighten(list, random) ==
    IF hasRotated(list)
    THEN [i \in DOMAIN list |->
            [list[i] EXCEPT !.originalRotation = None,
                            !.rotation = IF list[i].originalRotation # None
                                         THEN list[i].originalRotation[1]
                                         ELSE random[i]]]
    ELSE [i \in DOMAIN list |->
            [list[i] EXCEPT !.originalRotation = Some(list[i].rotation), !.rotation = 0]]

\* Rotations in tenths of a degree: values of Math.random() * 6 - 3, and 0
RandomRotations == {-25, 13}

Rotations == RandomRotations \cup {0}

BoardIds == <<Id1, Id2, Id3, <<"4">>>>

\* The lists a board may show: up to MaxNotes notes, each with a rotation
\* and with or without the rotation it had before a straighten.
TiltedLists ==
    UNION {[1..n -> {[NewNote(<<"0">>) EXCEPT !.rotation = r, !.originalRotation = o] :
                        r \in Rotations, o \in {None} \cup {Some(q) : q \in Rotations}}] :
           n \in 0..MaxNotes}

Numbered(list) == [i \in DOMAIN list |-> [list[i] EXCEPT !.id = BoardIds[i]]]

\* The component in this section: the notes it shows, the list before the
\* last toggle (prev), the list before the first of the toggles made since
\* the last other operation (start) and the number of those toggles (run).
InitToggle ==
    /\ vault = VaultOf(<< <<getBasePath, Folder>> >>)
    /\ metadataCache = IndexOf(vault)
    /\ trash = {}
    /\ settings = DEFAULT_SETTINGS
    /\ notes = <<>>
    /\ save = [SaveIdle(BoardA) EXCEPT !.pc = "off"]
    /\ io = <<>>
    /\ faults = 0
    /\ loaded = None
    /\ codec = CodecIdle
    /\ mig = MigIdle
    /\ \E list \in TiltedLists :
          view = [views |-> <<>>, ops |-> 0, shown |-> Numbered(list),
                  prev |-> Numbered(list), start |-> Numbered(list), run |-> 0]
    /\ calls = <<>>
    /\ before = [vault |-> vault, cache |-> metadataCache, notes |-> notes]

\* The user presses the straighten button.
ToggleStraighten ==
    /\ view.ops < MaxOps
    /\ \E random \in [DOMAIN view.shown -> RandomRotations] :
          view' = [view EXCEPT !.ops = @ + 1, !.run = @ + 1,
                               !.prev = view.shown,
                               !.shown = toggleStraighten(view.shown, random)]
    /\ UNCHANGED <<vault, metadataCache, trash, settings, faults, NotView>>

\* createNoteAt: the new note lies straight when the board is straightened,
\* and has no originalRotation.
CreateNoteStraight ==
    /\ view.ops < MaxOps
    /\ Len(view.shown) < MaxNotes
    /\ \E r \in (IF hasRotated(view.shown) THEN {0} ELSE RandomRotations) :
          LET list == Append(view.shown, [NewNote(<<"9">>) EXCEPT !.rotation = r])
          IN  view' = [view EXCEPT !.ops = @ + 1, !.run = 0,
                                   !.shown = list, !.prev = list, !.start = list]
    /\ UNCHANGED <<vault, metadataCache, trash, settings, faults, NotView>>

NextToggle == ToggleStraighten \/ CreateNoteStraight

SpecToggle == InitToggle /\ [][NextToggle]_vars

\* Note i of list b is note i of list a but for rotation and originalRotation
SameButRotation(a, b) ==
    /\ DOMAIN a = DOMAIN b
    /\ \A i \in DOMAIN a :
          [a[i] EXCEPT !.rotation = 0, !.originalRotation = None]
              = [b[i] EXCEPT !.rotation = 0, !.originalRotation = None]

\* What one toggle has done to the list it found (prev)
ToggleEffect ==
    view.run >= 1 =>
        /\ SameButRotation(view.prev, view.shown)
        /\ ~hasRotated(view.prev) =>
              \A i \in DOMAIN view.shown :
                  /\ view.shown[i].originalRotation = Some(view.prev[i].rotation)
                  /\ view.shown[i].rotation = 0
        /\ hasRotated(view.prev) =>
              \A i \in DOMAIN view.shown :
                  /\ view.shown[i].originalRotation = None
                  /\ view.prev[i].originalRotation # None =>
                        view.shown[i].rotation = view.prev[i].originalRotation[1]

\* The list is the one the toggles started from, and no note has the field.
BackAtStart ==
    /\ SameButRotation(view.start, view.shown)
    /\ \A i \in DOMAIN view.shown :
          /\ view.shown[i].rotation = view.start[i].rotation
          /\ view.shown[i].originalRotation = None

\* C37: a toggle on a board where no note has an originalRotation gives
\* every note its rotation as originalRotation and the rotation 0; a toggle
\* on a board where some note has one gives each such note the stored value
\* as rotation and leaves no note with the field; so two toggles in a row,
\* nothing else done in between, leave every rotation as it was and no note
\* with the field.
C37_TwoTogglesIdentity ==
    /\ ToggleEffect
    /\ view.run = 2 => BackAtStart

\* C37 with the two toggles made on a board where no note has the field
C37_ToggleStraighten ==
    /\ ToggleEffect
    /\ (view.run = 2 /\ ~hasRotated(view.start)) => BackAtStart

\* Two toggles in a row on a board of two tilted notes
C37_Witness ==
    /\ view.run = 2
    /\ Len(view.start) = 2
    /\ ~hasRotated(view.start)
    /\ view.start[1].rotation = -25 /\ view.start[2].rotation = 13
    /\ view.prev[1].originalRotation = Some(-25) /\ view.prev[1].rotation = 0
    /\ view.shown = view.start

\* Two toggles in a row on a straightened board: it is straightened again,
\* every note with its originalRotation.
C37_FromStraightened ==
    /\ view.run = 2
    /\ view.start # <<>>
    /\ \A i \in DOMAIN view.start :
          view.start[i].originalRotation # None /\ view.start[i].rotation = 0
    /\ view.shown = view.start

\* Two toggles in a row on a board where one note has the field and a tilted
\* one has not: the latter ends with the rotation 0.
C37_TiltLost ==
    /\ view.run = 2
    /\ \E i \in DOMAIN view.start :
          /\ view.start[i].originalRotation = None
          /\ view.start[i].rotation # 0
          /\ view.shown[i].rotation = 0

=============================================================================
